---- MODULE Spec2Model ----
(***************************************************************************)
(* A model of the toolhive-registry compilation pipeline:                  *)
(*   - the image reference parser       (pkg/registry/official.go)         *)
(*   - the entry decoder                (pkg/types, RegistryEntry)         *)
(*   - the catalog loader               (pkg/registry/loader.go)           *)
(*   - the native catalog builder       (pkg/registry/toolhive.go)         *)
(*   - the standards catalog builder    (pkg/registry/official.go)         *)
(*   - the invocation command builder   (pkg/toolhive/builder.go)          *)
(*                                                                         *)
(* Go strings that the code takes apart are sequences of one-character     *)
(* strings.  A Go pointer or slice that may be nil is a sequence of length *)
(* at most one: <<>> is nil, <<v>> is a non-nil pointer to (or a non-nil   *)
(* slice holding) v.                                                       *)
(***************************************************************************)
EXTENDS Integers, Sequences, FiniteSets, TLC

VARIABLES
    image,      \* parser: the image reference handed to parseImageReference
    parsed,     \* parser: <<>> before the call, <<result>> after it
    raw,        \* decoder: the raw document handed to UnmarshalYAML
    decoded,    \* decoder: <<>> before the call, <<[err, entry]>> after it
    runSpec,    \* command builder: the arguments handed to BuildRunCommand
    runArgs,    \* command builder: <<>> before the call, <<result>> after it
    profiles,   \* the permission profiles allocated so far (*permissions.Profile
                \* values; a pointer to one is its index in this sequence)
    listing,    \* the candidate directories of the Loader's registry root, in
                \* the walk's order, each with its spec.yaml as the walk finds it
    entries,    \* Loader.entries: entry name -> entry
    fills,      \* history: the operations that filled the entry set so far,
                \* "LoadAll" or "assign", in order
    loadErr,    \* what LoadAll returned: <<>> for nil, else <<error>>
    loadedProfiles, \* history: the permission profiles as loading left them
    registry,   \* what Builder.Build returned last: <<>> before any call
    processed,  \* the names Builder.Build went through last, in its order
    previous,   \* history: the native catalog of the Build before the last,
                \* as it serialised when that Build returned; <<>> when the
                \* entry set was filled between the two
    official,   \* what OfficialRegistry.build returned last
    stale,      \* history: which of registry and official were returned
                \* before the entry set was last filled
    nativeFile, \* the native catalog file: <<>> while it does not exist
    officialFile, \* the standards catalog file
    pc,         \* the position inside a WriteJSON call, "idle" between calls
    call,       \* the operation running, or the one that ran last
    steps,      \* the steps that operation has taken so far
    err         \* the error value the operation holds or returned ("" for nil)

parseVars == <<image, parsed>>

decodeVars == <<raw, decoded>>

runVars == <<runSpec, runArgs>>

loaderVars == <<listing, entries, fills, loadErr, loadedProfiles>>

buildVars == <<registry, processed, previous, official, stale>>

fileVars == <<nativeFile, officialFile>>

callVars == <<pc, call, steps, err>>

pipeVars == <<loaderVars, buildVars, fileVars, callVars>>

vars == <<parseVars, decodeVars, runVars, profiles, pipeVars>>

(***************************************************************************)
(* Bounds of the model.                                                    *)
(***************************************************************************)
MaxImageLen == 7

\* The most candidate directories one LoadAll walks through.
MaxDirs == 2

\* The most times the entry set of one Loader is filled (by LoadAll or by the
\* assignment the tests make).
MaxFills == 2

(***************************************************************************)
(* The state of a Loader, its builders and the catalog files right after   *)
(* NewLoader, NewBuilder and NewOfficialRegistry.                          *)
(***************************************************************************)
PipeIdle ==
    /\ runSpec = <<>>
    /\ runArgs = <<>>
    /\ entries = <<>>
    /\ fills = <<>>
    /\ stale = {}
    /\ loadErr = <<>>
    /\ loadedProfiles = <<>>
    /\ registry = <<>>
    /\ processed = <<>>
    /\ previous = <<>>
    /\ official = <<>>
    /\ nativeFile = <<>>
    /\ officialFile = <<>>
    /\ pc = "idle"
    /\ call = ""
    /\ steps = <<>>
    /\ err = ""

(***************************************************************************)
(* Go's nil and the strings package.                                       *)
(***************************************************************************)
Nil == <<>>

Ptr(v) == <<v>>

Contains(s, c) == \E i \in 1..Len(s) : s[i] = c

Count(s, c) == Cardinality({i \in 1..Len(s) : s[i] = c})

\* The index of the first occurrence of c in s, 0 when there is none.
Index(s, c) ==
    IF Contains(s, c)
    THEN CHOOSE i \in 1..Len(s) : s[i] = c /\ \A j \in 1..(i - 1) : s[j] # c
    ELSE 0

\* The index of the last occurrence of c in s, 0 when there is none.
LastIndex(s, c) ==
    IF Contains(s, c)
    THEN CHOOSE i \in 1..Len(s) : s[i] = c /\ \A j \in (i + 1)..Len(s) : s[j] # c
    ELSE 0

\* strings.SplitN(s, c, 2): the whole string when c does not occur,
\* else the text before and the text after the first c.
SplitN2(s, c) ==
    IF Contains(s, c)
    THEN << SubSeq(s, 1, Index(s, c) - 1), SubSeq(s, Index(s, c) + 1, Len(s)) >>
    ELSE << s >>

\* strings.Split(s, c)[0]: the text before the first c, or all of s.
SplitFirst(s, c) == SplitN2(s, c)[1]

HTTPS == << "h", "t", "t", "p", "s", ":", "/", "/" >>

DockerHub == HTTPS \o << "d", "o", "c", "k", "e", "r", ".", "i", "o" >>

PortError == "registry with port not supported"

(***************************************************************************)
(* splitRegistryAndName and parseImageReference.                           *)
(***************************************************************************)
\* A plausible slip: the first segment is taken for a registry host whether
\* or not it has a dot.
splitRegistryAndName_AnyHost(img) ==
    IF ~Contains(img, "/")
    THEN [registryBaseURL |-> DockerHub, identifier |-> img]
    ELSE [registryBaseURL |-> HTTPS \o SplitN2(img, "/")[1],
          identifier |-> SplitN2(img, "/")[2]]

splitRegistryAndName(img) ==
    IF ~Contains(img, "/")
    THEN [registryBaseURL |-> DockerHub, identifier |-> img]
    ELSE LET parts == SplitN2(img, "/")
             firstPart == parts[1]
         IN  IF Contains(firstPart, ".")
             THEN [registryBaseURL |-> HTTPS \o firstPart, identifier |-> parts[2]]
             ELSE [registryBaseURL |-> DockerHub, identifier |-> img]

ParseResult(reg, ver, e) ==
    [registryBaseURL |-> reg.registryBaseURL, identifier |-> reg.identifier,
     version |-> ver, err |-> e]

ParseFailure(e) ==
    [registryBaseURL |-> <<>>, identifier |-> <<>>, version |-> <<>>, err |-> e]

Latest == << "l", "a", "t", "e", "s", "t" >>

parseImageReference(img) ==
    IF /\ Contains(img, ":")
       /\ Count(img, ":") > 1
       /\ Contains(SplitFirst(img, "/"), ":")
    THEN ParseFailure(PortError)
    ELSE IF Contains(img, "@")
    THEN LET parts == SplitN2(img, "@")
         IN  ParseResult(splitRegistryAndName(parts[1]), parts[2], "")
    ELSE IF Contains(img, ":")
    THEN LET parts == SplitN2(img, ":")
         IN  ParseResult(splitRegistryAndName(parts[1]), parts[2], "")
    ELSE ParseResult(splitRegistryAndName(img), Latest, "")

(***************************************************************************)
(* The parser's specification: an image reference is drawn, then parsed.   *)
(***************************************************************************)
ImageChars == { "a", ".", ":", "/", "@" }

SeqsUpTo(S, n) == UNION { [1..k -> S] : k \in 0..n }

\* docker.io/mcp/git:latest
ExampleRef ==
    << "d", "o", "c", "k", "e", "r", ".", "i", "o", "/", "m", "c", "p", "/",
       "g", "i", "t", ":", "l", "a", "t", "e", "s", "t" >>

ImageRefs == SeqsUpTo(ImageChars, MaxImageLen) \cup { ExampleRef }

InitParse ==
    /\ image \in ImageRefs
    /\ parsed = Nil
    /\ raw = Nil
    /\ decoded = Nil
    /\ profiles = <<>>
    /\ listing = <<>>
    /\ PipeIdle

Parse ==
    /\ parsed = Nil
    /\ parsed' = Ptr(parseImageReference(image))
    /\ UNCHANGED <<image, decodeVars, runVars, profiles, pipeVars>>

NextParse == Parse

SpecParse == InitParse /\ [][NextParse]_vars

(***************************************************************************)
(* types.RegistryEntry and its decoder.                                    *)
(*                                                                         *)
(* A raw document is a record: hasImage and hasURL say whether the keys    *)
(* 'image' and 'url' are present (a key may be present with an empty       *)
(* value), the other fields hold the value of each key, with the zero      *)
(* value for an absent key; wellTyped says whether the typed decoding of   *)
(* the document succeeds.                                                  *)
(***************************************************************************)
StatusActive == "Active"

StatusDeprecated == "Deprecated"

TierCommunity == "Community"

TierOfficial == "Official"

ZeroEntry == [ImageMetadata |-> Nil, RemoteServerMetadata |-> Nil]

IsRemote(r) ==
    r.RemoteServerMetadata # Nil /\ r.RemoteServerMetadata[1].URL # ""

IsImage(r) ==
    r.ImageMetadata # Nil /\ r.ImageMetadata[1].Image # <<>>

\* GetServerMetadata: the active variant's record, nil when there is none.
GetServerMetadata(r) ==
    IF IsImage(r) THEN r.ImageMetadata
    ELSE IF IsRemote(r) THEN r.RemoteServerMetadata
    ELSE Nil

GetName(r) ==
    IF GetServerMetadata(r) # Nil THEN GetServerMetadata(r)[1].Name ELSE <<>>

GetDescription(r) ==
    IF GetServerMetadata(r) # Nil THEN GetServerMetadata(r)[1].Description ELSE ""

GetTransport(r) ==
    IF GetServerMetadata(r) # Nil THEN GetServerMetadata(r)[1].Transport ELSE ""

GetTier(r) ==
    IF GetServerMetadata(r) # Nil THEN GetServerMetadata(r)[1].Tier ELSE ""

GetStatus(r) ==
    IF GetServerMetadata(r) # Nil THEN GetServerMetadata(r)[1].Status ELSE ""

GetTools(r) ==
    IF GetServerMetadata(r) # Nil THEN GetServerMetadata(r)[1].Tools ELSE Nil

SetName(r, name) ==
    [ImageMetadata |->
        IF r.ImageMetadata # Nil
        THEN Ptr([r.ImageMetadata[1] EXCEPT !.Name = name])
        ELSE Nil,
     RemoteServerMetadata |->
        IF r.RemoteServerMetadata # Nil
        THEN Ptr([r.RemoteServerMetadata[1] EXCEPT !.Name = name])
        ELSE Nil]

\* SetDefaults: the tier and the status of each record the entry has, where
\* empty, become Community and Active.
SetDefaults(r) ==
    [ImageMetadata |->
        IF r.ImageMetadata # Nil
        THEN Ptr([r.ImageMetadata[1] EXCEPT
                    !.Tier = IF @ = "" THEN TierCommunity ELSE @,
                    !.Status = IF @ = "" THEN StatusActive ELSE @])
        ELSE Nil,
     RemoteServerMetadata |->
        IF r.RemoteServerMetadata # Nil
        THEN Ptr([r.RemoteServerMetadata[1] EXCEPT
                    !.Tier = IF @ = "" THEN TierCommunity ELSE @,
                    !.Status = IF @ = "" THEN StatusActive ELSE @])
        ELSE Nil]

\* The length of a slice that may be nil.
SliceLen(sl) == IF sl = Nil THEN 0 ELSE Len(sl[1])

\* The typed decoding of a document into registry.ImageMetadata.  A declared
\* permission profile is a newly allocated object: the next cell of heap.
DecodeImageMetadata(doc, heap) ==
    [Name |-> doc.name, Description |-> doc.description, Tier |-> doc.tier,
     Status |-> doc.status, Transport |-> doc.transport, Tools |-> doc.tools,
     Tags |-> doc.tags, RepositoryURL |-> doc.repository_url,
     Image |-> doc.image, EnvVars |-> doc.env_vars,
     Args |-> doc.args,
     Permissions |-> IF doc.permissions # Nil THEN Ptr(Len(heap) + 1) ELSE Nil]

\* The typed decoding of a document into registry.RemoteServerMetadata,
\* followed by the header and environment-variable overlay, which replaces
\* the lists only when the document declares at least one element.
DecodeRemoteServerMetadata(doc) ==
    [Name |-> doc.name, Description |-> doc.description, Tier |-> doc.tier,
     Status |-> doc.status, Transport |-> doc.transport, Tools |-> doc.tools,
     Tags |-> doc.tags, RepositoryURL |-> doc.repository_url, URL |-> doc.url,
     Headers |-> IF SliceLen(doc.headers) > 0
                 THEN Ptr([i \in 1..Len(doc.headers[1]) |-> doc.headers[1][i]])
                 ELSE doc.headers,
     EnvVars |-> IF SliceLen(doc.env_vars) > 0
                 THEN Ptr([i \in 1..Len(doc.env_vars[1]) |-> doc.env_vars[1][i]])
                 ELSE doc.env_vars]

ErrBothFields == "entry cannot have both 'image' and 'url' fields"

ErrNoField == "entry must have either 'image' or 'url' field"

ErrUnmarshal == "yaml: unmarshal errors"

\* A plausible slip: the check for both keys is missing, 'image' wins.
UnmarshalYAML_ImageWins(doc, heap) ==
    IF ~doc.hasImage /\ ~doc.hasURL
    THEN [err |-> ErrNoField, entry |-> ZeroEntry, heap |-> heap]
    ELSE IF doc.hasImage
    THEN [err |-> IF doc.wellTyped THEN "" ELSE ErrUnmarshal,
          entry |-> [ImageMetadata |-> Ptr(DecodeImageMetadata(doc, heap)),
                     RemoteServerMetadata |-> Nil],
          heap |-> IF doc.permissions # Nil
                   THEN Append(heap, doc.permissions[1])
                   ELSE heap]
    ELSE [err |-> IF doc.wellTyped THEN "" ELSE ErrUnmarshal,
          entry |-> [ImageMetadata |-> Nil,
                     RemoteServerMetadata |-> Ptr(DecodeRemoteServerMetadata(doc))],
          heap |-> heap]

\* RegistryEntry.UnmarshalYAML on a zero entry: the error returned, the entry
\* as the call leaves it, and the heap of profiles after it.
UnmarshalYAML(doc, heap) ==
    IF doc.hasImage /\ doc.hasURL
    THEN [err |-> ErrBothFields, entry |-> ZeroEntry, heap |-> heap]
    ELSE IF ~doc.hasImage /\ ~doc.hasURL
    THEN [err |-> ErrNoField, entry |-> ZeroEntry, heap |-> heap]
    ELSE IF doc.hasImage
    THEN [err |-> IF doc.wellTyped THEN "" ELSE ErrUnmarshal,
          entry |-> [ImageMetadata |-> Ptr(DecodeImageMetadata(doc, heap)),
                     RemoteServerMetadata |-> Nil],
          heap |-> IF doc.permissions # Nil
                   THEN Append(heap, doc.permissions[1])
                   ELSE heap]
    ELSE [err |-> IF doc.wellTyped THEN "" ELSE ErrUnmarshal,
          entry |-> [ImageMetadata |-> Nil,
                     RemoteServerMetadata |-> Ptr(DecodeRemoteServerMetadata(doc))],
          heap |-> heap]

(***************************************************************************)
(* The documents drawn.                                                    *)
(***************************************************************************)
NameA == << "a" >>

NameAB == << "a", "b" >>

NameB == << "b" >>

ImageA == << "a", "/", "a", ":", "a" >>

ImagePort == << "a", ":", "a", "/", "a", ":", "a" >>

UrlA == "https://example.com/mcp"

EnvVarA == [Name |-> "KEY", Required |-> TRUE, Secret |-> FALSE, Default |-> ""]

HeaderA == [Name |-> "Authorization", Description |-> "token", Required |-> TRUE,
            Secret |-> TRUE, Default |-> "", Choices |-> Nil]

HeaderB == [Name |-> "X-Region", Description |-> "region", Required |-> FALSE,
            Secret |-> FALSE, Default |-> "eu", Choices |-> Ptr(<< "eu", "us" >>)]

\* Permission profiles as authored: each list may be absent.
OutboundBare == [InsecureAllowAll |-> FALSE, AllowHost |-> Nil, AllowPort |-> Nil]

OutboundFull ==
    [InsecureAllowAll |-> FALSE, AllowHost |-> Ptr(<< "example.com" >>),
     AllowPort |-> Ptr(<< 443 >>)]

ProfileBare == [Read |-> Nil, Write |-> Nil, Network |-> Nil]

ProfileNet ==
    [Read |-> Nil, Write |-> Ptr(<< "/tmp" >>),
     Network |-> Ptr([Outbound |-> Ptr(OutboundBare)])]

ProfileFull ==
    [Read |-> Ptr(<< "/data" >>), Write |-> Ptr(<< "/tmp" >>),
     Network |-> Ptr([Outbound |-> Ptr(OutboundFull)])]

ProfileNoOutbound ==
    [Read |-> Ptr(<<>>), Write |-> Nil, Network |-> Ptr([Outbound |-> Nil])]

BaseDoc ==
    [hasImage |-> FALSE, image |-> <<>>, hasURL |-> FALSE, url |-> "",
     name |-> <<>>, description |-> "d", tier |-> "", status |-> "",
     transport |-> "stdio", tools |-> Nil, tags |-> Nil, args |-> Nil,
     env_vars |-> Nil, headers |-> Nil, permissions |-> Nil,
     repository_url |-> "", wellTyped |-> TRUE, io |-> ""]

\* The documents of the decoder's specification: every combination of the two
\* discriminating keys, present with or without a value, and of the fields the
\* decoder copies.
DecodeDocs ==
    { [BaseDoc EXCEPT !.hasImage = hi, !.image = im, !.hasURL = hu, !.url = u,
                      !.name = n, !.tier = t, !.permissions = p,
                      !.headers = h, !.wellTyped = w] :
        hi \in BOOLEAN, im \in { <<>>, ImageA }, hu \in BOOLEAN,
        u \in { "", UrlA }, n \in { <<>>, NameA },
        t \in { "", TierOfficial }, p \in { Nil, Ptr(ProfileBare) },
        h \in { Nil, Ptr(<<>>), Ptr(<< HeaderA >>) }, w \in BOOLEAN }

\* A key that is absent has no value.
KeysConsistent(doc) ==
    /\ ~doc.hasImage => doc.image = <<>>
    /\ ~doc.hasURL => doc.url = ""

InitDecode ==
    /\ raw \in { Ptr(d) : d \in { x \in DecodeDocs : KeysConsistent(x) } }
    /\ decoded = Nil
    /\ profiles = <<>>
    /\ image = <<>>
    /\ parsed = Nil
    /\ listing = <<>>
    /\ PipeIdle

Decode ==
    /\ decoded = Nil
    /\ LET res == UnmarshalYAML(raw[1], profiles)
       IN  /\ decoded' = Ptr([err |-> res.err, entry |-> res.entry])
           /\ profiles' = res.heap
    /\ UNCHANGED <<parseVars, raw, runVars, pipeVars>>

\* entry.SetDefaults() on the entry the decoder filled.
DecodedSetDefaults ==
    /\ decoded # Nil
    /\ decoded' = Ptr([decoded[1] EXCEPT !.entry = SetDefaults(@)])
    /\ UNCHANGED <<parseVars, raw, runVars, profiles, pipeVars>>

NextDecode == Decode \/ DecodedSetDefaults

SpecDecode == InitDecode /\ [][NextDecode]_vars

(***************************************************************************)
(* Claims about the decoder (checked under SpecDecode).                    *)
(***************************************************************************)
\* C4: decoding fails when the document has both an 'image' and a 'url' key
\* and when it has neither; the image variant is selected exactly when only
\* 'image' is present, the remote variant exactly when only 'url' is present.
C4_VariantByKeyPresence ==
    decoded # Nil =>
        /\ (raw[1].hasImage /\ raw[1].hasURL) => decoded[1].err = ErrBothFields
        /\ (~raw[1].hasImage /\ ~raw[1].hasURL) => decoded[1].err = ErrNoField
        /\ (decoded[1].entry.ImageMetadata # Nil)
              <=> (raw[1].hasImage /\ ~raw[1].hasURL)
        /\ (decoded[1].entry.RemoteServerMetadata # Nil)
              <=> (raw[1].hasURL /\ ~raw[1].hasImage)

\* C4 witness: a document with both keys, each with a value, was decoded and
\* refused.
C4_Witness ==
    /\ decoded # Nil
    /\ raw[1].hasImage /\ raw[1].image = ImageA
    /\ raw[1].hasURL /\ raw[1].url = UrlA
    /\ raw[1].wellTyped
    /\ decoded[1].err = ErrBothFields

\* C5: every entry that decoding returns without error is exactly one of
\* IsImage and IsRemote.
C5_DecodedIsOneVariant ==
    (decoded # Nil /\ decoded[1].err = "") =>
        (IsImage(decoded[1].entry) /\ ~IsRemote(decoded[1].entry))
        \/ (IsRemote(decoded[1].entry) /\ ~IsImage(decoded[1].entry))

(***************************************************************************)
(* Claims about the image reference parser (checked under SpecParse).      *)
(***************************************************************************)
\* The first '/'-separated segment is a registry host with a port: the
\* reference has a '/', and its first segment is host:port with a non-empty
\* host and a non-empty port.
RegistryHasPort(img) ==
    /\ Contains(img, "/")
    /\ LET seg == SplitFirst(img, "/")
       IN  /\ Count(seg, ":") = 1
           /\ ~Contains(seg, "@")
           /\ Index(seg, ":") > 1
           /\ Index(seg, ":") < Len(seg)

\* There is a ':' after the last '/' of the reference (anywhere, when the
\* reference has no '/').
HasTag(img) == \E i \in (LastIndex(img, "/") + 1)..Len(img) : img[i] = ":"

\* The index of the first ':' after the last '/'.
TagIndex(img) ==
    CHOOSE i \in (LastIndex(img, "/") + 1)..Len(img) :
        /\ img[i] = ":"
        /\ \A j \in (LastIndex(img, "/") + 1)..(i - 1) : img[j] # ":"

\* A reference as it is written in practice: it starts and ends with a name
\* character, and every separator or dot stands between two name characters.
WellFormed(img) ==
    /\ Len(img) > 0
    /\ img[1] = "a"
    /\ img[Len(img)] = "a"
    /\ \A i \in 1..(Len(img) - 1) : img[i] = "a" \/ img[i + 1] = "a"

\* C1: every image reference whose registry segment contains a port
\* (host:port/...) is rejected by parseImageReference with the 'registry with
\* port not supported' error, and no components are returned.
C1_PortAlwaysRejected ==
    (parsed # Nil /\ WellFormed(image) /\ RegistryHasPort(image)) =>
        parsed[1] = ParseFailure(PortError)

\* C2: every image reference containing '@' parses without error, the version
\* is exactly the text after the '@', and registry and identifier are the
\* registry/identifier split of the text before the '@'.  (References whose
\* registry segment has a port are left out here: C1 requires them to fail;
\* the digest is taken in its usual form algorithm:hex.)
C2_DigestAlwaysParsed ==
    (/\ parsed # Nil
     /\ WellFormed(image)
     /\ Contains(image, "@")
     /\ Count(SplitN2(image, "@")[2], ":") = 1
     /\ ~RegistryHasPort(image)) =>
        parsed[1] = ParseResult(splitRegistryAndName(SplitN2(image, "@")[1]),
                                SplitN2(image, "@")[2], "")

\* C3: an image reference with neither '@' nor a ':' after its last '/' parses
\* to version 'latest'; when a ':' follows the last '/', the version is the
\* text after that ':' and the image path is the text before it.
C3_TagOrLatest ==
    (parsed # Nil /\ WellFormed(image) /\ ~Contains(image, "@")) =>
        IF HasTag(image)
        THEN parsed[1] =
                ParseResult(
                    splitRegistryAndName(SubSeq(image, 1, TagIndex(image) - 1)),
                    SubSeq(image, TagIndex(image) + 1, Len(image)), "")
        ELSE /\ parsed[1].err = ""
             /\ parsed[1].version = Latest

(***************************************************************************)
(* sort.Strings: Go orders strings by their bytes.                         *)
(***************************************************************************)
\* The printable ASCII characters from the space (byte 32) to the underscore
\* (byte 95) and from a (byte 97) to the tilde (byte 126); the strings of the
\* model are made of these.  (Byte 96, the backquote, cannot be written in a
\* string of this language.)
AsciiLow ==
    << " ", "!", "\"", "#", "$", "%", "&", "'", "(", ")", "*", "+", ",", "-",
       ".", "/", "0", "1", "2", "3", "4", "5", "6", "7", "8", "9", ":", ";",
       "<", "=", ">", "?", "@", "A", "B", "C", "D", "E", "F", "G", "H", "I",
       "J", "K", "L", "M", "N", "O", "P", "Q", "R", "S", "T", "U", "V", "W",
       "X", "Y", "Z", "[", "\\", "]", "^", "_" >>

AsciiHigh ==
    << "a", "b", "c", "d", "e", "f", "g", "h", "i", "j", "k", "l", "m", "n",
       "o", "p", "q", "r", "s", "t", "u", "v", "w", "x", "y", "z", "{", "|",
       "}", "~" >>

ByteOf ==
    [c \in { AsciiLow[i] : i \in 1..Len(AsciiLow) } |->
        31 + (CHOOSE i \in 1..Len(AsciiLow) : AsciiLow[i] = c)]
    @@ [c \in { AsciiHigh[i] : i \in 1..Len(AsciiHigh) } |->
        96 + (CHOOSE i \in 1..Len(AsciiHigh) : AsciiHigh[i] = c)]

\* The byte of a character, which is what Go's string comparison goes by.
Byte(c) == ByteOf[c]

RECURSIVE StringLess(_, _)
StringLess(x, y) ==
    IF y = <<>> THEN FALSE
    ELSE IF x = <<>> THEN TRUE
    ELSE IF Byte(x[1]) # Byte(y[1]) THEN Byte(x[1]) < Byte(y[1])
    ELSE StringLess(Tail(x), Tail(y))

RECURSIVE SortedInsert(_, _)
SortedInsert(x, sorted) ==
    IF sorted = <<>> THEN << x >>
    ELSE IF StringLess(sorted[1], x)
    THEN << sorted[1] >> \o SortedInsert(x, Tail(sorted))
    ELSE << x >> \o sorted

RECURSIVE SortStringsFrom(_, _)
SortStringsFrom(names, sorted) ==
    IF names = <<>> THEN sorted
    ELSE SortStringsFrom(Tail(names), SortedInsert(names[1], sorted))

\* A plausible slip: the names are used in the order the map yielded them.
SortStrings_Unsorted(names) == names

SortStrings(names) == SortStringsFrom(names, <<>>)

\* The orders in which a Go range over a map with key set S may yield the keys.
RangeOrders(S) ==
    { o \in [1..Cardinality(S) -> S] : \A i, j \in 1..Cardinality(S) :
                                           o[i] = o[j] => i = j }

(***************************************************************************)
(* SchemaValidator: the per-entry checks and the native catalog check.     *)
(***************************************************************************)
Transports == { "stdio", "sse", "streamable-http" }

Tiers == { "", TierCommunity, TierOfficial }

Statuses == { "", StatusActive, StatusDeprecated }

ValidateEntryFields(entry, name) ==
    IF ~IsImage(entry) /\ ~IsRemote(entry) THEN "image or url is required"
    ELSE IF GetDescription(entry) = "" THEN "description is required"
    ELSE IF GetTransport(entry) \notin Transports THEN "invalid transport"
    ELSE IF GetTier(entry) \notin Tiers THEN "invalid tier"
    ELSE IF GetStatus(entry) \notin Statuses THEN "invalid status"
    ELSE ""

ValidateComplete(entry, name) == ValidateEntryFields(entry, name)

\* SchemaValidator.ValidateRegistry on a native catalog.
ValidateRegistry(reg) ==
    IF \/ \E n \in DOMAIN reg.Servers : reg.Servers[n].Description = ""
       \/ \E n \in DOMAIN reg.RemoteServers : reg.RemoteServers[n].Description = ""
    THEN "registry validation failed"
    ELSE ""

(***************************************************************************)
(* Loader.                                                                 *)
(***************************************************************************)
ErrParseYAML == "failed to parse YAML"

ErrValidation == "validation failed"

ErrOpenFile == "failed to open file"

ErrReadFile == "failed to read file"

\* The error filepath.Walk hands the callback for a path it cannot stat or
\* list.
ErrWalk == "walk error"

\* LoadEntryWithName on the spec.yaml found at a path: doc.io tells whether
\* os.Open ("open") or io.ReadAll ("read") fails on it.
LoadEntryWithName(doc, name, heap) ==
    LET res == UnmarshalYAML(doc, heap)
    IN  IF doc.io = "open"
        THEN [err |-> ErrOpenFile, entry |-> ZeroEntry, heap |-> heap]
        ELSE IF doc.io = "read"
        THEN [err |-> ErrReadFile, entry |-> ZeroEntry, heap |-> heap]
        ELSE IF res.err # ""
        THEN [err |-> ErrParseYAML, entry |-> ZeroEntry, heap |-> heap]
        ELSE IF ValidateComplete(res.entry, name) # ""
        THEN [err |-> ErrValidation, entry |-> ZeroEntry, heap |-> heap]
        ELSE [err |-> "", entry |-> res.entry, heap |-> res.heap]

\* LoadEntry: LoadEntryWithName with no name.
LoadEntry(doc, heap) == LoadEntryWithName(doc, <<>>, heap)

\* The walk reports an error for the directory (the callback's err is not
\* nil, or filepath.Rel fails): the callback returns it.
WalkFails(dir) == dir.doc.io = "walk"

WalkError(dir) == Ptr([msg |-> ErrWalk, path |-> dir.name])

\* A plausible slip: the directory name is the key and the name, whatever the
\* entry declares.
RECURSIVE WalkFrom_DirNameWins(_, _, _, _)
WalkFrom_DirNameWins(dirs, i, ents, heap) ==
    IF i > Len(dirs)
    THEN [entries |-> ents, heap |-> heap, err |-> Nil]
    ELSE IF WalkFails(dirs[i])
    THEN [entries |-> ents, heap |-> heap, err |-> WalkError(dirs[i])]
    ELSE LET res == LoadEntryWithName(dirs[i].doc, dirs[i].name, heap)
         IN  IF res.err # ""
             THEN [entries |-> ents, heap |-> heap,
                   err |-> Ptr([msg |-> res.err, path |-> dirs[i].name])]
             ELSE WalkFrom_DirNameWins(dirs, i + 1,
                      (dirs[i].name :> SetName(res.entry, dirs[i].name)) @@ ents,
                      res.heap)

\* A plausible slip: a document that fails to load is skipped and the walk
\* goes on.
RECURSIVE WalkFrom_SkipBad(_, _, _, _)
WalkFrom_SkipBad(dirs, i, ents, heap) ==
    IF i > Len(dirs)
    THEN [entries |-> ents, heap |-> heap, err |-> Nil]
    ELSE IF WalkFails(dirs[i])
    THEN [entries |-> ents, heap |-> heap, err |-> WalkError(dirs[i])]
    ELSE LET entryName == dirs[i].name
             res == LoadEntryWithName(dirs[i].doc, entryName, heap)
         IN  IF res.err # ""
             THEN WalkFrom_SkipBad(dirs, i + 1, ents, heap)
             ELSE IF GetName(res.entry) # <<>> /\ GetName(res.entry) # entryName
             THEN WalkFrom_SkipBad(dirs, i + 1,
                      (GetName(res.entry) :> res.entry) @@ ents, res.heap)
             ELSE WalkFrom_SkipBad(dirs, i + 1,
                      (entryName :> SetName(res.entry, entryName)) @@ ents,
                      res.heap)

\* A plausible slip: a key already in the map is not overwritten.
RECURSIVE WalkFrom_KeepFirst(_, _, _, _)
WalkFrom_KeepFirst(dirs, i, ents, heap) ==
    IF i > Len(dirs)
    THEN [entries |-> ents, heap |-> heap, err |-> Nil]
    ELSE IF WalkFails(dirs[i])
    THEN [entries |-> ents, heap |-> heap, err |-> WalkError(dirs[i])]
    ELSE LET entryName == dirs[i].name
             res == LoadEntryWithName(dirs[i].doc, entryName, heap)
         IN  IF res.err # ""
             THEN [entries |-> ents, heap |-> heap,
                   err |-> Ptr([msg |-> res.err, path |-> entryName])]
             ELSE IF GetName(res.entry) # <<>> /\ GetName(res.entry) # entryName
             THEN WalkFrom_KeepFirst(dirs, i + 1,
                      ents @@ (GetName(res.entry) :> res.entry), res.heap)
             ELSE WalkFrom_KeepFirst(dirs, i + 1,
                      ents @@ (entryName :> SetName(res.entry, entryName)),
                      res.heap)

\* The walk of LoadAll over the candidate directories dirs[i..], each a
\* directory name with the document of its spec.yaml, in the walk's order.
RECURSIVE WalkFrom(_, _, _, _)
WalkFrom(dirs, i, ents, heap) ==
    IF i > Len(dirs)
    THEN [entries |-> ents, heap |-> heap, err |-> Nil]
    ELSE IF WalkFails(dirs[i])
    THEN [entries |-> ents, heap |-> heap, err |-> WalkError(dirs[i])]
    ELSE LET entryName == dirs[i].name
             res == LoadEntryWithName(dirs[i].doc, entryName, heap)
         IN  IF res.err # ""
             THEN [entries |-> ents, heap |-> heap,
                   err |-> Ptr([msg |-> res.err, path |-> entryName])]
             ELSE IF GetName(res.entry) # <<>> /\ GetName(res.entry) # entryName
             THEN WalkFrom(dirs, i + 1,
                           (GetName(res.entry) :> res.entry) @@ ents, res.heap)
             ELSE WalkFrom(dirs, i + 1,
                           (entryName :> SetName(res.entry, entryName)) @@ ents,
                           res.heap)

\* LoadAll on a Loader that holds ents: filepath.Walk either cannot stat the
\* root, and the callback returns that error at once, or goes through the
\* candidate directories.
LoadAllOn(rootErr, dirs, ents, heap) ==
    IF rootErr
    THEN [entries |-> ents, heap |-> heap,
          err |-> Ptr([msg |-> ErrWalk, path |-> <<>>])]
    ELSE WalkFrom(dirs, 1, ents, heap)

\* The entries of the map in the order the range yielded their keys.
RangeEntries(order, ents) == [i \in 1..Len(order) |-> ents[order[i]]]

\* sort.Slice by GetName: for the short slices considered, the insertion sort
\* the library runs on fewer than twelve elements.
RECURSIVE EntryInsert(_, _)
EntryInsert(x, sorted) ==
    IF sorted = <<>> THEN << x >>
    ELSE IF StringLess(GetName(x), GetName(sorted[Len(sorted)]))
    THEN Append(EntryInsert(x, SubSeq(sorted, 1, Len(sorted) - 1)),
                sorted[Len(sorted)])
    ELSE Append(sorted, x)

RECURSIVE SortByName(_, _)
SortByName(list, sorted) ==
    IF list = <<>> THEN sorted
    ELSE SortByName(Tail(list), EntryInsert(list[1], sorted))

\* A plausible slip: the entries are returned in the order of the range.
GetSortedEntries_Unsorted(order, ents) == RangeEntries(order, ents)

\* Loader.GetSortedEntries, the range over the map having yielded the keys in
\* order `order`.
GetSortedEntries(order, ents) == SortByName(RangeEntries(order, ents), <<>>)

(***************************************************************************)
(* Builder: the native catalog.                                            *)
(***************************************************************************)
\* A plausible slip: a nil list is left nil.
EmptyIfNil_LeftNil(sl) == sl

EmptyIfNil(sl) == IF sl = Nil THEN Ptr(<<>>) ELSE sl

DefaultIfEmpty(v, d) == IF v = "" THEN d ELSE v

\* A plausible slip: the write list is given a default mount on every pass,
\* where the code only replaces a nil list by an empty one.
NormalizeProfile_Appending(p) ==
    [Read |-> EmptyIfNil(p.Read),
     Write |-> Ptr(EmptyIfNil(p.Write)[1] \o << "/tmp" >>),
     Network |-> p.Network]

\* toolhive.go:96-115, on the profile the record points to.
NormalizeProfile(p) ==
    [Read |-> EmptyIfNil(p.Read),
     Write |-> EmptyIfNil(p.Write),
     Network |->
        IF p.Network # Nil /\ p.Network[1].Outbound # Nil
        THEN Ptr([Outbound |->
                Ptr([p.Network[1].Outbound[1] EXCEPT
                        !.AllowHost = EmptyIfNil(@),
                        !.AllowPort = EmptyIfNil(@)])])
        ELSE p.Network]

\* processImageMetadata: the record returned and the heap after the call.
\* result is a copy of the record, but result.Permissions is the same pointer
\* as metadata.Permissions: the writes go to the one profile both point to.
processImageMetadata(metadata, heap) ==
    [result |->
        [metadata EXCEPT !.Name = <<>>,
                         !.Tier = DefaultIfEmpty(@, "Community"),
                         !.Status = DefaultIfEmpty(@, "Active"),
                         !.Tools = EmptyIfNil(@),
                         !.Tags = EmptyIfNil(@),
                         !.EnvVars = EmptyIfNil(@),
                         !.Args = EmptyIfNil(@)],
     heap |->
        IF metadata.Permissions # Nil
        THEN [heap EXCEPT ![metadata.Permissions[1]] = NormalizeProfile(@)]
        ELSE heap]

processRemoteMetadata(metadata) ==
    [metadata EXCEPT !.Name = <<>>,
                     !.Tier = DefaultIfEmpty(@, "Community"),
                     !.Status = DefaultIfEmpty(@, "Active"),
                     !.Tools = EmptyIfNil(@),
                     !.Tags = EmptyIfNil(@),
                     !.EnvVars = EmptyIfNil(@),
                     !.Headers = EmptyIfNil(@)]

EmptyRegistry == [Version |-> "1.0.0", Servers |-> <<>>, RemoteServers |-> <<>>]

\* A plausible slip: the branch for remote entries is missing.
RECURSIVE BuildFrom_ImagesOnly(_, _, _, _, _)
BuildFrom_ImagesOnly(names, i, ents, reg, heap) ==
    IF i > Len(names)
    THEN [registry |-> reg, heap |-> heap]
    ELSE IF IsImage(ents[names[i]])
    THEN LET res == processImageMetadata(ents[names[i]].ImageMetadata[1], heap)
         IN  BuildFrom_ImagesOnly(names, i + 1, ents,
                 [reg EXCEPT !.Servers = (names[i] :> res.result) @@ @],
                 res.heap)
    ELSE BuildFrom_ImagesOnly(names, i + 1, ents, reg, heap)

\* The loop of Builder.Build over names[i..].
RECURSIVE BuildFrom(_, _, _, _, _)
BuildFrom(names, i, ents, reg, heap) ==
    IF i > Len(names)
    THEN [registry |-> reg, heap |-> heap]
    ELSE LET name == names[i]
             entry == ents[name]
         IN  IF IsImage(entry)
             THEN LET res == processImageMetadata(entry.ImageMetadata[1], heap)
                  IN  BuildFrom(names, i + 1, ents,
                                [reg EXCEPT !.Servers = (name :> res.result) @@ @],
                                res.heap)
             ELSE IF IsRemote(entry)
             THEN BuildFrom(names, i + 1, ents,
                            [reg EXCEPT !.RemoteServers =
                                (name :> processRemoteMetadata(
                                             entry.RemoteServerMetadata[1])) @@ @],
                            heap)
             ELSE BuildFrom(names, i + 1, ents, reg, heap)

\* Builder.Build, the range over the map having yielded the keys in order
\* `order`: the registry, the heap after the call and the sorted names.
Build(order, ents, heap) ==
    LET names == SortStrings(order)
        res == BuildFrom(names, 1, ents, EmptyRegistry, heap)
    IN  [registry |-> res.registry, heap |-> res.heap, names |-> names]

\* json.MarshalIndent of the native catalog: pointers are followed.
MarshalRegistry(reg, heap) ==
    [reg EXCEPT !.Servers =
        [n \in DOMAIN reg.Servers |->
            [reg.Servers[n] EXCEPT !.Permissions =
                IF @ = Nil THEN Nil ELSE Ptr(heap[@[1]])]]]

\* What a catalog Build returned (<<>> before any Build) serialises to.
Serialised(reg, heap) ==
    IF reg = Nil THEN Nil ELSE Ptr(MarshalRegistry(reg[1], heap))

(***************************************************************************)
(* OfficialRegistry: the standards catalog.  Of a server record the model  *)
(* keeps what is computed from the entry; the generated id and the         *)
(* timestamps of the registry extension block, and the last-updated time,  *)
(* are left out.                                                           *)
(***************************************************************************)
ModelStatusActive == "active"

ModelStatusDeprecated == "deprecated"

RegistryTypeOCI == "oci"

PlaceholderRepository == "https://github.com/stacklok/toolhive-registry"

convertStatus(status) ==
    IF status = StatusActive \/ status = "" THEN ModelStatusActive
    ELSE IF status = StatusDeprecated THEN ModelStatusDeprecated
    ELSE ModelStatusActive

createRepository(entry) ==
    LET repositoryURL ==
            IF IsImage(entry) /\ entry.ImageMetadata[1].RepositoryURL # ""
            THEN entry.ImageMetadata[1].RepositoryURL
            ELSE IF IsRemote(entry) /\ entry.RemoteServerMetadata[1].RepositoryURL # ""
            THEN entry.RemoteServerMetadata[1].RepositoryURL
            ELSE ""
    IN  IF repositoryURL = ""
        THEN IF IsRemote(entry)
             THEN [URL |-> PlaceholderRepository, Source |-> "github"]
             ELSE [URL |-> "", Source |-> ""]
        ELSE [URL |-> repositoryURL, Source |-> "github"]

\* The standards input-field shape of one environment variable.
EnvVarInput(envVar) ==
    [Name |-> envVar.Name, IsRequired |-> envVar.Required,
     IsSecret |-> envVar.Secret, Default |-> envVar.Default]

\* A plausible slip: the default and the choices are carried through too.
HeaderInput_Complete(header) ==
    [Name |-> header.Name, Description |-> header.Description,
     IsRequired |-> header.Required, IsSecret |-> header.Secret,
     Default |-> header.Default, Choices |-> header.Choices]

\* The standards input-field shape of one header: Default and Choices are
\* left at their zero values.
HeaderInput(header) ==
    [Name |-> header.Name, Description |-> header.Description,
     IsRequired |-> header.Required, IsSecret |-> header.Secret,
     Default |-> "", Choices |-> Nil]

\* A plausible slip: no package descriptor when the image does not parse.
createPackages_NoFallback(entry) ==
    IF ~IsImage(entry) \/ entry.ImageMetadata[1].Image = <<>>
       \/ parseImageReference(entry.ImageMetadata[1].Image).err # ""
    THEN Nil
    ELSE LET ref == parseImageReference(entry.ImageMetadata[1].Image)
         IN  Ptr(<< [RegistryType |-> RegistryTypeOCI,
                     RegistryBaseURL |-> ref.registryBaseURL,
                     Identifier |-> ref.identifier,
                     Version |-> ref.version,
                     EnvironmentVariables |->
                        IF SliceLen(entry.ImageMetadata[1].EnvVars) = 0 THEN Nil
                        ELSE Ptr([i \in 1..Len(entry.ImageMetadata[1].EnvVars[1])
                                    |-> EnvVarInput(
                                          entry.ImageMetadata[1].EnvVars[1][i])])
                    ] >>)

createPackages(entry) ==
    IF ~IsImage(entry) \/ entry.ImageMetadata[1].Image = <<>>
    THEN Nil
    ELSE LET md == entry.ImageMetadata[1]
             envVars ==
                IF SliceLen(md.EnvVars) = 0 THEN Nil
                ELSE Ptr([i \in 1..Len(md.EnvVars[1]) |->
                              EnvVarInput(md.EnvVars[1][i])])
             ref == parseImageReference(md.Image)
         IN  Ptr(<< [RegistryType |-> RegistryTypeOCI,
                     RegistryBaseURL |->
                        IF ref.err # "" THEN <<>> ELSE ref.registryBaseURL,
                     Identifier |->
                        IF ref.err # "" THEN md.Image ELSE ref.identifier,
                     Version |-> IF ref.err # "" THEN <<>> ELSE ref.version,
                     EnvironmentVariables |-> envVars] >>)

createRemotes(entry) ==
    IF ~IsRemote(entry) \/ entry.RemoteServerMetadata[1].URL = ""
    THEN Nil
    ELSE LET md == entry.RemoteServerMetadata[1]
             headers ==
                IF SliceLen(md.Headers) = 0 THEN Nil
                ELSE Ptr([i \in 1..Len(md.Headers[1]) |->
                              HeaderInput(md.Headers[1][i])])
         IN  Ptr(<< [TransportType |-> GetTransport(entry), URL |-> md.URL,
                     Headers |-> headers] >>)

\* One key of an extension map, present only under a condition.
IfSet(cond, key, value) == IF cond THEN key :> value ELSE <<>>

addImageSpecificExtensions(entry) ==
    IF entry.ImageMetadata = Nil THEN <<>>
    ELSE LET md == entry.ImageMetadata[1]
         IN  IfSet(SliceLen(md.Tags) > 0, "tags", md.Tags)
             @@ IfSet(md.Permissions # Nil, "permissions", md.Permissions)
             @@ IfSet(SliceLen(md.Args) > 0, "args", md.Args)

addRemoteSpecificExtensions(entry) ==
    IF entry.RemoteServerMetadata = Nil THEN <<>>
    ELSE LET md == entry.RemoteServerMetadata[1]
         IN  IfSet(SliceLen(md.Tags) > 0, "tags", md.Tags)

\* A plausible slip: the tier is written even when it is empty.
createToolHiveExtensions_TierAlways(entry) ==
    ("transport" :> GetTransport(entry))
    @@ IfSet(SliceLen(GetTools(entry)) > 0, "tools", GetTools(entry))
    @@ ("tier" :> GetTier(entry))
    @@ (IF IsImage(entry) THEN addImageSpecificExtensions(entry)
        ELSE IF IsRemote(entry) THEN addRemoteSpecificExtensions(entry)
        ELSE <<>>)

createToolHiveExtensions(entry) ==
    ("transport" :> GetTransport(entry))
    @@ IfSet(SliceLen(GetTools(entry)) > 0, "tools", GetTools(entry))
    @@ IfSet(GetTier(entry) # "", "tier", GetTier(entry))
    @@ (IF IsImage(entry) THEN addImageSpecificExtensions(entry)
        ELSE IF IsRemote(entry) THEN addRemoteSpecificExtensions(entry)
        ELSE <<>>)

\* The "toolhive" map of the publisher extensions, as the sequence of its
\* (key, payload) pairs: one pair, or none for an entry of neither variant.
createXPublisherExtensions(entry) ==
    IF IsImage(entry)
    THEN << [image |-> entry.ImageMetadata[1].Image, url |-> "",
             payload |-> createToolHiveExtensions(entry)] >>
    ELSE IF IsRemote(entry)
    THEN << [image |-> <<>>, url |-> entry.RemoteServerMetadata[1].URL,
             payload |-> createToolHiveExtensions(entry)] >>
    ELSE <<>>

transformEntry(name, entry) ==
    [Name |-> name,
     Description |-> GetDescription(entry),
     Status |-> convertStatus(GetStatus(entry)),
     Repository |-> createRepository(entry),
     VersionDetail |-> "1.0.0",
     PublisherProvided |-> createXPublisherExtensions(entry),
     IsLatest |-> TRUE,
     Packages |-> IF IsImage(entry) THEN createPackages(entry) ELSE Nil,
     Remotes |-> IF IsRemote(entry) THEN createRemotes(entry) ELSE Nil]

\* OfficialRegistry.build, the range over the map having yielded the keys
\* in order `order`.
build(order, ents) ==
    LET names == SortStrings(order)
    IN  [Version |-> "1.0.0",
         Servers |-> IF names = <<>> THEN Nil
                     ELSE Ptr([i \in 1..Len(names) |->
                                  transformEntry(names[i], ents[names[i]])]),
         Groups |-> Ptr(<<>>)]

\* validateEntries: the error of the first entry found invalid, in whatever
\* order the map yields them.
validateEntries(ents) ==
    IF \E n \in DOMAIN ents : ValidateEntryFields(ents[n], n) # ""
    THEN "entry validation failed"
    ELSE ""

\* What the registry schema asks of a catalog.
ConformsToSchema(reg) ==
    \A i \in 1..SliceLen(reg.Servers) :
        /\ reg.Servers[1][i].Name # <<>>
        /\ reg.Servers[1][i].Description # ""

\* validateRegistry; schemaLoads says whether the schema document could be
\* read from the local file or fetched from its remote location.
validateRegistry(reg, schemaLoads) ==
    IF ~schemaLoads THEN "schema validation failed"
    ELSE IF ~ConformsToSchema(reg) THEN "validation errors"
    ELSE ""

\* json.MarshalIndent of the standards catalog: pointers are followed.
MarshalOfficial(reg, heap) ==
    [reg EXCEPT !.Servers =
        IF @ = Nil THEN Nil
        ELSE Ptr([i \in 1..Len(@[1]) |->
                [@[1][i] EXCEPT !.PublisherProvided =
                    [k \in 1..Len(@) |->
                        [@[k] EXCEPT !.payload =
                            [key \in DOMAIN @ |->
                                IF key = "permissions"
                                THEN Ptr(heap[@[key][1]])
                                ELSE @[key]]]]]])]

(***************************************************************************)
(* The documents and directories of the pipeline's specification.          *)
(***************************************************************************)
DocImageBare == [BaseDoc EXCEPT !.hasImage = TRUE, !.image = ImageA]

DocImageNamed ==
    [DocImageBare EXCEPT !.name = NameB, !.tier = TierOfficial,
                         !.status = StatusDeprecated, !.tools = Ptr(<< "t" >>),
                         !.tags = Ptr(<<>>), !.args = Ptr(<< "--x" >>),
                         !.env_vars = Ptr(<< EnvVarA >>),
                         !.permissions = Ptr(ProfileNet)]

DocImagePerm == [DocImageBare EXCEPT !.permissions = Ptr(ProfileBare)]

DocImagePort ==
    [DocImageBare EXCEPT !.image = ImagePort, !.tags = Ptr(<< "g" >>),
                         !.permissions = Ptr(ProfileFull)]

DocRemote ==
    [BaseDoc EXCEPT !.hasURL = TRUE, !.url = UrlA, !.transport = "sse",
                    !.headers = Ptr(<< HeaderA >>)]

DocRemoteNamed ==
    [BaseDoc EXCEPT !.hasURL = TRUE, !.url = UrlA, !.transport = "sse",
                    !.name = NameA, !.status = StatusActive,
                    !.tools = Ptr(<< "t" >>)]

DocRemoteHeaders ==
    [BaseDoc EXCEPT !.hasURL = TRUE, !.url = UrlA,
                    !.transport = "streamable-http",
                    !.headers = Ptr(<< HeaderB, HeaderA >>)]

DocBoth == [DocImageBare EXCEPT !.hasURL = TRUE, !.url = UrlA]

DocNoDescription == [DocImageBare EXCEPT !.description = ""]

\* A document with the key url and no value for it: it decodes without error
\* to an entry that is neither an image entry nor a remote entry.
DocEmptyURL == [BaseDoc EXCEPT !.hasURL = TRUE]

LoadDocs ==
    { DocImageBare, DocImageNamed, DocImagePerm, DocImagePort, DocRemote,
      DocRemoteNamed, DocRemoteHeaders, DocBoth, DocNoDescription,
      DocEmptyURL }

\* A good document in a directory the walk fails on, in a file that cannot
\* be opened, and in a file that cannot be read.
DocWalkError == [DocImageBare EXCEPT !.io = "walk"]

DocUnopenable == [DocImageBare EXCEPT !.io = "open"]

DocUnreadable == [DocImageBare EXCEPT !.io = "read"]

LoadFiles == LoadDocs \cup { DocWalkError, DocUnopenable, DocUnreadable }

DirNames == { NameA, NameAB, NameB }

\* The candidate directories of a registry root, in the order of the walk
\* (filepath.Walk visits a directory's children in lexical order).
Listings ==
    UNION { { l \in [1..k -> [name : DirNames, doc : LoadFiles]] :
                \A i \in 1..(k - 1) : StringLess(l[i].name, l[i + 1].name) } :
            k \in 0..MaxDirs }

Dir(name, doc) == [name |-> name, doc |-> doc]

\* The registry roots of the pipeline's specification.
PipeRoots ==
    { <<>>,
      << Dir(NameA, DocImageBare) >>,
      << Dir(NameA, DocImageNamed) >>,
      << Dir(NameA, DocImagePerm) >>,
      << Dir(NameA, DocImagePort) >>,
      << Dir(NameA, DocRemote) >>,
      << Dir(NameA, DocRemoteHeaders) >>,
      << Dir(NameA, DocBoth) >>,
      << Dir(NameA, DocNoDescription) >>,
      << Dir(NameA, DocEmptyURL) >>,
      << Dir(NameA, DocUnreadable) >>,
      << Dir(NameA, DocImagePort), Dir(NameB, DocImageBare) >>,
      << Dir(NameA, DocRemoteNamed), Dir(NameB, DocImagePerm) >>,
      << Dir(NameA, DocRemote), Dir(NameAB, DocImageNamed) >>,
      << Dir(NameA, DocRemoteNamed), Dir(NameAB, DocImageNamed) >>,
      << Dir(NameA, DocImageNamed), Dir(NameB, DocRemote) >>,
      << Dir(NameA, DocImageBare), Dir(NameAB, DocRemoteHeaders) >>,
      << Dir(NameA, DocImageBare), Dir(NameB, DocNoDescription) >>,
      << Dir(NameA, DocWalkError), Dir(NameB, DocImageBare) >> }

\* The entry sets the package's tests give a Loader directly: one image entry
\* under its name, complete or lacking its description, tier and status.
TestEntry(name, description, tier, status) ==
    [ImageMetadata |->
        Ptr([Name |-> name, Description |-> description, Tier |-> tier,
             Status |-> status, Transport |-> "stdio", Tools |-> Ptr(<< "t" >>),
             Tags |-> Nil, RepositoryURL |-> "", Image |-> ImageA,
             EnvVars |-> Nil, Args |-> Nil, Permissions |-> Nil]),
     RemoteServerMetadata |-> Nil]

TestEntrySets ==
    { NameA :> TestEntry(NameA, "d", TierCommunity, StatusActive),
      NameB :> TestEntry(NameB, "", "", "") }

(***************************************************************************)
(* CommandBuilder and BuildRunCommand (pkg/toolhive/builder.go).  The      *)
(* argument list is a sequence of strings, each a sequence of characters,  *)
(* so that fmt.Sprintf("%s=%s", name, value) is the concatenation it is.   *)
(***************************************************************************)
MaxEnvVars == 2

\* The characters of the strings the entries of this specification hold.
Chars(str) ==
    CASE str = "" -> <<>>
      [] str = "stdio" -> << "s", "t", "d", "i", "o" >>
      [] str = "A" -> << "A" >>
      [] str = "B" -> << "B" >>
      [] str = "v" -> << "v" >>
      [] str = "x" -> << "x" >>
      [] str = "y" -> << "y" >>

ArgRun == << "r", "u", "n" >>

FlagName == << "-", "-", "n", "a", "m", "e" >>

FlagTransport ==
    << "-", "-", "t", "r", "a", "n", "s", "p", "o", "r", "t" >>

FlagEnv == << "-", "e" >>

FlagPermissionProfile ==
    << "-", "-", "p", "e", "r", "m", "i", "s", "s", "i", "o", "n", "-",
       "p", "r", "o", "f", "i", "l", "e" >>

ArgNetwork == << "n", "e", "t", "w", "o", "r", "k" >>

ArgSeparator == << "-", "-" >>

Placeholder == << "p", "l", "a", "c", "e", "h", "o", "l", "d", "e", "r" >>

NewCommandBuilder(command) == << command >>

AddFlag(args, flag, value) ==
    IF value # <<>> THEN args \o << flag, value >> ELSE args

AddEnvVar(args, name, value) ==
    IF value # <<>> THEN args \o << FlagEnv, name \o << "=" >> \o value >>
    ELSE args

AddPositional(args, value) == Append(args, value)

\* A plausible slip: the required flag is looked at before the default.
RECURSIVE AddEnvVars_RequiredFirst(_, _, _)
AddEnvVars_RequiredFirst(args, envVars, i) ==
    IF i > Len(envVars) THEN args
    ELSE IF envVars[i].Required
    THEN AddEnvVars_RequiredFirst(
             AddEnvVar(args, Chars(envVars[i].Name), Placeholder), envVars, i + 1)
    ELSE IF envVars[i].Default # ""
    THEN AddEnvVars_RequiredFirst(
             AddEnvVar(args, Chars(envVars[i].Name), Chars(envVars[i].Default)),
             envVars, i + 1)
    ELSE IF envVars[i].Secret
    THEN AddEnvVars_RequiredFirst(
             AddEnvVar(args, Chars(envVars[i].Name), Placeholder), envVars, i + 1)
    ELSE AddEnvVars_RequiredFirst(args, envVars, i + 1)

\* The loop of BuildRunCommand over the declared environment variables
\* envVars[i..].
RECURSIVE AddEnvVars(_, _, _)
AddEnvVars(args, envVars, i) ==
    IF i > Len(envVars) THEN args
    ELSE IF envVars[i].Default # ""
    THEN AddEnvVars(
             AddEnvVar(args, Chars(envVars[i].Name), Chars(envVars[i].Default)),
             envVars, i + 1)
    ELSE IF envVars[i].Required
    THEN AddEnvVars(AddEnvVar(args, Chars(envVars[i].Name), Placeholder),
                    envVars, i + 1)
    ELSE IF envVars[i].Secret
    THEN AddEnvVars(AddEnvVar(args, Chars(envVars[i].Name), Placeholder),
                    envVars, i + 1)
    ELSE AddEnvVars(args, envVars, i + 1)

\* A plausible slip: empty static arguments are passed on as well.
RECURSIVE AddArgs_KeepEmpty(_, _, _)
AddArgs_KeepEmpty(args, a, i) ==
    IF i > Len(a) THEN args
    ELSE AddArgs_KeepEmpty(AddPositional(args, Chars(a[i])), a, i + 1)

\* The loop of BuildRunCommand over the entry's static arguments a[i..].
RECURSIVE AddArgs(_, _, _)
AddArgs(args, a, i) ==
    IF i > Len(a) THEN args
    ELSE IF a[i] # "" THEN AddArgs(AddPositional(args, Chars(a[i])), a, i + 1)
    ELSE AddArgs(args, a, i + 1)

\* BuildRunCommand(spec, tempName, image); heap holds the permission profile
\* spec.Permissions points to.
BuildRunCommand(spec, tempName, img, heap) ==
    LET b0 == AddFlag(NewCommandBuilder(ArgRun), FlagName, tempName)
        b1 == IF spec.ImageMetadata # Nil
              THEN LET md == spec.ImageMetadata[1]
                       t == AddFlag(b0, FlagTransport, Chars(md.Transport))
                       e == IF md.EnvVars # Nil
                            THEN AddEnvVars(t, md.EnvVars[1], 1)
                            ELSE t
                   IN  IF md.Permissions # Nil
                          /\ heap[md.Permissions[1]].Network # Nil
                       THEN AddFlag(e, FlagPermissionProfile, ArgNetwork)
                       ELSE e
              ELSE b0
        b2 == AddPositional(b1, img)
    IN  IF spec.ImageMetadata # Nil /\ SliceLen(spec.ImageMetadata[1].Args) > 0
        THEN AddArgs(AddPositional(b2, ArgSeparator),
                     spec.ImageMetadata[1].Args[1], 1)
        ELSE b2

(***************************************************************************)
(* The command builder's specification: an entry, a temporary name and an  *)
(* image are drawn, then the command is built.                             *)
(***************************************************************************)
RunEnvVars ==
    [Name : { "A", "B" }, Default : { "", "v" }, Required : BOOLEAN,
     Secret : BOOLEAN]

RunEnvVarLists ==
    { Nil } \cup { Ptr(l) : l \in SeqsUpTo(RunEnvVars, MaxEnvVars) }

RunProfiles ==
    { Nil, Ptr(ProfileBare), Ptr(ProfileNet), Ptr(ProfileNoOutbound) }

RunArgLists ==
    { Nil, Ptr(<<>>), Ptr(<< "", "x" >>), Ptr(<< "y", "", "x" >>) }

\* An image entry as the decoder leaves it; its profile, if any, is the one
\* cell of the heap.
RunImageEntry(transport, envVars, profile, args) ==
    [ImageMetadata |->
        Ptr([Name |-> NameA, Description |-> "d", Tier |-> "", Status |-> "",
             Transport |-> transport, Tools |-> Nil, Tags |-> Nil,
             RepositoryURL |-> "", Image |-> ImageA, EnvVars |-> envVars,
             Args |-> args,
             Permissions |-> IF profile # Nil THEN Ptr(1) ELSE Nil]),
     RemoteServerMetadata |-> Nil]

RunRemoteEntry ==
    [ImageMetadata |-> Nil,
     RemoteServerMetadata |-> Ptr(DecodeRemoteServerMetadata(DocRemote))]

InitRun ==
    /\ \E tempName \in { <<>>, << "t" >> }, img \in { <<>>, ImageA } :
        \/ /\ runSpec = Ptr([spec |-> RunRemoteEntry, tempName |-> tempName,
                             image |-> img])
           /\ profiles = <<>>
        \/ \E transport \in { "", "stdio" }, envVars \in RunEnvVarLists,
              profile \in RunProfiles, args \in RunArgLists :
            /\ runSpec =
                 Ptr([spec |-> RunImageEntry(transport, envVars, profile, args),
                      tempName |-> tempName, image |-> img])
            /\ profiles = profile
    /\ runArgs = Nil
    /\ image = <<>>
    /\ parsed = Nil
    /\ raw = Nil
    /\ decoded = Nil
    /\ listing = <<>>
    /\ entries = <<>>
    /\ fills = <<>>
    /\ stale = {}
    /\ loadErr = <<>>
    /\ loadedProfiles = <<>>
    /\ registry = <<>>
    /\ processed = <<>>
    /\ previous = <<>>
    /\ official = <<>>
    /\ nativeFile = <<>>
    /\ officialFile = <<>>
    /\ pc = "idle"
    /\ call = ""
    /\ steps = <<>>
    /\ err = ""

Run ==
    /\ runSpec # Nil
    /\ runArgs = Nil
    /\ runArgs' = Ptr(BuildRunCommand(runSpec[1].spec, runSpec[1].tempName,
                                      runSpec[1].image, profiles))
    /\ UNCHANGED <<parseVars, decodeVars, runSpec, profiles, pipeVars>>

NextRun == Run

SpecRun == InitRun /\ [][NextRun]_vars

(***************************************************************************)
(* The pipeline: one Loader, the two builders over it, the two files.      *)
(***************************************************************************)
InitPipe ==
    /\ image = <<>>
    /\ parsed = Nil
    /\ raw = Nil
    /\ decoded = Nil
    /\ profiles = <<>>
    /\ listing \in PipeRoots
    /\ PipeIdle

\* The catalogs returned so far: after a fill they are all of an entry set
\* the Loader no longer holds.
Returned ==
    (IF registry # Nil THEN { "registry" } ELSE {})
    \cup (IF official # Nil THEN { "official" } ELSE {})

\* Loader.LoadAll over the registry root.
LoadAll ==
    /\ pc = "idle" /\ Len(fills) < MaxFills
    /\ \E rootErr \in BOOLEAN :
        LET res == LoadAllOn(rootErr, listing, entries, profiles)
        IN  /\ entries' = res.entries
            /\ profiles' = res.heap
            /\ loadedProfiles' = res.heap
            /\ loadErr' = res.err
    /\ fills' = Append(fills, "LoadAll")
    /\ stale' = Returned
    /\ call' = "Loader.LoadAll"
    /\ steps' = <<>>
    /\ err' = ""
    /\ UNCHANGED <<parseVars, decodeVars, runVars, listing, registry, processed,
                   previous, official, fileVars, pc>>

\* loader.entries = map[string]*types.RegistryEntry{...}, as the tests do.
SetEntries ==
    /\ pc = "idle" /\ Len(fills) < MaxFills
    /\ entries' \in TestEntrySets
    /\ loadedProfiles' = profiles
    /\ fills' = Append(fills, "assign")
    /\ stale' = Returned
    /\ call' = "loader.entries ="
    /\ steps' = <<>>
    /\ err' = ""
    /\ UNCHANGED <<parseVars, decodeVars, runVars, profiles, listing, loadErr,
                   registry, processed, previous, official, fileVars, pc>>

\* Builder.Build.
BuilderBuild ==
    /\ pc = "idle"
    /\ \E order \in RangeOrders(DOMAIN entries) :
        LET res == Build(order, entries, profiles)
        IN  /\ registry' = Ptr(res.registry)
            /\ profiles' = res.heap
            /\ processed' = res.names
            /\ previous' = IF "registry" \in stale THEN Nil
                            ELSE Serialised(registry, profiles)
            /\ stale' = stale \ { "registry" }
    /\ call' = "Builder.Build"
    /\ steps' = << "build" >>
    /\ err' = ""
    /\ UNCHANGED <<parseVars, decodeVars, runVars, loaderVars, official, fileVars, pc>>

\* Builder.ValidateAgainstSchema.
BuilderValidateAgainstSchema ==
    /\ pc = "idle"
    /\ \E order \in RangeOrders(DOMAIN entries) :
        LET res == Build(order, entries, profiles)
        IN  /\ registry' = Ptr(res.registry)
            /\ profiles' = res.heap
            /\ processed' = res.names
            /\ previous' = IF "registry" \in stale THEN Nil
                            ELSE Serialised(registry, profiles)
            /\ stale' = stale \ { "registry" }
            /\ err' = ValidateRegistry(res.registry)
    /\ call' = "Builder.ValidateAgainstSchema"
    /\ steps' = << "build", "validateRegistry" >>
    /\ UNCHANGED <<parseVars, decodeVars, runVars, loaderVars, official, fileVars, pc>>

\* Builder.WriteJSON, first step: b.Build().
BuilderWriteJSON_Build ==
    /\ pc = "idle"
    /\ \E order \in RangeOrders(DOMAIN entries) :
        LET res == Build(order, entries, profiles)
        IN  /\ registry' = Ptr(res.registry)
            /\ profiles' = res.heap
            /\ processed' = res.names
            /\ previous' = IF "registry" \in stale THEN Nil
                            ELSE Serialised(registry, profiles)
            /\ stale' = stale \ { "registry" }
    /\ call' = "Builder.WriteJSON"
    /\ steps' = << "build" >>
    /\ err' = ""
    /\ pc' = "bw_write"
    /\ UNCHANGED <<parseVars, decodeVars, runVars, loaderVars, official, fileVars>>

\* Builder.WriteJSON, second step: MkdirAll, MarshalIndent, WriteFile.
BuilderWriteJSON_Write ==
    /\ pc = "bw_write"
    /\ \E ioOK \in BOOLEAN :
        IF ioOK
        THEN /\ nativeFile' = Ptr(MarshalRegistry(registry[1], profiles))
             /\ steps' = Append(steps, "write")
             /\ err' = ""
        ELSE /\ err' = "failed to write file"
             /\ UNCHANGED <<nativeFile, steps>>
    /\ pc' = "idle"
    /\ UNCHANGED <<parseVars, decodeVars, runVars, profiles, loaderVars, buildVars,
                   officialFile, call>>

\* OfficialRegistry.ValidateAgainstSchema.
OfficialValidateAgainstSchema ==
    /\ pc = "idle"
    /\ \E order \in RangeOrders(DOMAIN entries), schemaLoads \in BOOLEAN :
        /\ official' = Ptr(build(order, entries))
        /\ err' = validateRegistry(build(order, entries), schemaLoads)
    /\ stale' = stale \ { "official" }
    /\ call' = "OfficialRegistry.ValidateAgainstSchema"
    /\ steps' = << "build", "validateRegistry" >>
    /\ UNCHANGED <<parseVars, decodeVars, runVars, profiles, loaderVars, registry,
                   processed, previous, fileVars, pc>>

\* OfficialRegistry.WriteJSON, first step: or.validateEntries().
OfficialWriteJSON_ValidateEntries ==
    /\ pc = "idle"
    /\ call' = "OfficialRegistry.WriteJSON"
    /\ steps' = << "validateEntries" >>
    /\ err' = validateEntries(entries)
    /\ pc' = IF validateEntries(entries) # "" THEN "idle" ELSE "ow_build"
    /\ UNCHANGED <<parseVars, decodeVars, runVars, profiles, loaderVars, buildVars,
                   fileVars>>

\* OfficialRegistry.WriteJSON, second step: or.build().
OfficialWriteJSON_Build ==
    /\ pc = "ow_build"
    /\ \E order \in RangeOrders(DOMAIN entries) :
        official' = Ptr(build(order, entries))
    /\ stale' = stale \ { "official" }
    /\ steps' = Append(steps, "build")
    /\ pc' = "ow_validateRegistry"
    /\ UNCHANGED <<parseVars, decodeVars, runVars, profiles, loaderVars, registry,
                   processed, previous, fileVars, call, err>>

\* A plausible slip: the verdict of validateRegistry is not looked at.
OfficialWriteJSON_ValidateRegistry_Unchecked ==
    /\ pc = "ow_validateRegistry"
    /\ \E schemaLoads \in BOOLEAN :
        err' = validateRegistry(official[1], schemaLoads)
    /\ pc' = "ow_write"
    /\ steps' = Append(steps, "validateRegistry")
    /\ UNCHANGED <<parseVars, decodeVars, runVars, profiles, loaderVars, buildVars,
                   fileVars, call>>

\* OfficialRegistry.WriteJSON, third step: or.validateRegistry(registry).
OfficialWriteJSON_ValidateRegistry ==
    /\ pc = "ow_validateRegistry"
    /\ \E schemaLoads \in BOOLEAN :
        /\ err' = validateRegistry(official[1], schemaLoads)
        /\ pc' = IF validateRegistry(official[1], schemaLoads) # ""
                 THEN "idle" ELSE "ow_write"
    /\ steps' = Append(steps, "validateRegistry")
    /\ UNCHANGED <<parseVars, decodeVars, runVars, profiles, loaderVars, buildVars,
                   fileVars, call>>

\* OfficialRegistry.WriteJSON, last step: MkdirAll, MarshalIndent, WriteFile.
OfficialWriteJSON_Write ==
    /\ pc = "ow_write"
    /\ \E ioOK \in BOOLEAN :
        IF ioOK
        THEN /\ officialFile' = Ptr(MarshalOfficial(official[1], profiles))
             /\ steps' = Append(steps, "write")
             /\ err' = ""
        ELSE /\ err' = "failed to write file"
             /\ UNCHANGED <<officialFile, steps>>
    /\ pc' = "idle"
    /\ UNCHANGED <<parseVars, decodeVars, runVars, profiles, loaderVars, buildVars,
                   nativeFile, call>>

Next ==
    \/ LoadAll
    \/ SetEntries
    \/ BuilderBuild
    \/ BuilderValidateAgainstSchema
    \/ BuilderWriteJSON_Build
    \/ BuilderWriteJSON_Write
    \/ OfficialValidateAgainstSchema
    \/ OfficialWriteJSON_ValidateEntries
    \/ OfficialWriteJSON_Build
    \/ OfficialWriteJSON_ValidateRegistry
    \/ OfficialWriteJSON_Write

Spec == InitPipe /\ [][Next]_vars

(***************************************************************************)
(* The Loader alone, over every registry root of up to MaxDirs candidate   *)
(* directories.                                                            *)
(***************************************************************************)
InitLoad ==
    /\ image = <<>>
    /\ parsed = Nil
    /\ raw = Nil
    /\ decoded = Nil
    /\ profiles = <<>>
    /\ listing \in Listings
    /\ PipeIdle

NextLoad == LoadAll \/ SetEntries

SpecLoad == InitLoad /\ [][NextLoad]_vars

(***************************************************************************)
(* Claims about the pipeline (checked under Spec).                         *)
(***************************************************************************)
\* The catalog last returned was built from the entry set the Loader holds.
NativeCurrent == registry # Nil /\ "registry" \notin stale

OfficialCurrent == official # Nil /\ "official" \notin stale

IsPrefix(s, t) == Len(s) <= Len(t) /\ SubSeq(t, 1, Len(s)) = s

Elems(s) == { s[i] : i \in 1..Len(s) }

OfficialWriteOrder == << "validateEntries", "build", "validateRegistry", "write" >>

\* C6: OfficialRegistry.WriteJSON validates every loaded entry, then builds,
\* then validates the catalog against the schema, then writes the file; it
\* reaches the build only with every entry valid and the write only with both
\* validations passed, and when a validation fails it returns the error with
\* no write step taken; the file changes in no other step.
C6_OfficialWriteAfterValidation ==
    /\ [](call = "OfficialRegistry.WriteJSON" =>
            /\ IsPrefix(steps, OfficialWriteOrder)
            /\ pc \in { "ow_build", "ow_validateRegistry", "ow_write" } =>
                    (err = "" /\ validateEntries(entries) = "")
            /\ pc = "ow_write" => ConformsToSchema(official[1])
            /\ "write" \in Elems(steps) =>
                    /\ err = ""
                    /\ validateEntries(entries) = ""
                    /\ ConformsToSchema(official[1])
                    /\ officialFile = Ptr(MarshalOfficial(official[1], profiles))
            /\ (pc = "idle" /\ err # "") => "write" \notin Elems(steps))
    /\ [][officialFile' # officialFile =>
            /\ pc = "ow_write"
            /\ err = ""
            /\ steps = SubSeq(OfficialWriteOrder, 1, 3)]_vars

\* C6 witness: a WriteJSON over a loaded entry has written the file.
C6_Witness ==
    /\ call = "OfficialRegistry.WriteJSON"
    /\ steps = OfficialWriteOrder
    /\ officialFile # Nil
    /\ SliceLen(officialFile[1].Servers) > 0

\* C7: the native builder's WriteJSON writes its file only after the entries
\* and the catalog it built have passed validation, and writes nothing when
\* that catalog would fail ValidateAgainstSchema.
C7_NativeWriteAfterValidation ==
    (call = "Builder.WriteJSON" /\ "write" \in Elems(steps)) =>
        /\ validateEntries(entries) = ""
        /\ ValidateRegistry(registry[1]) = ""

\* C8: the builders never modify the loaded entry set: no step other than the
\* loading itself changes an entry or a permission profile it points to.
C8_BuildersOnlyRead ==
    [][call' \notin { "Loader.LoadAll", "loader.entries =" } =>
            (entries' = entries /\ profiles' = profiles)]_vars

Ascending(names) ==
    \A i \in 1..(Len(names) - 1) : StringLess(names[i], names[i + 1])

ServerNames(reg) == [i \in 1..SliceLen(reg.Servers) |-> reg.Servers[1][i].Name]

\* C9: the standards catalog lists exactly one record per loaded entry, in
\* strictly ascending order of name, the native builder goes through the
\* entries in ascending order of name, and both results are the same for
\* every order in which the entry map may yield its keys.
C9_AscendingNameOrder ==
    /\ OfficialCurrent =>
        /\ Len(ServerNames(official[1])) = Cardinality(DOMAIN entries)
        /\ Elems(ServerNames(official[1])) = DOMAIN entries
        /\ Ascending(ServerNames(official[1]))
        /\ \A order \in RangeOrders(DOMAIN entries) :
                build(order, entries) = official[1]
    /\ NativeCurrent =>
        /\ Len(processed) = Cardinality(DOMAIN entries)
        /\ Elems(processed) = DOMAIN entries
        /\ Ascending(processed)
        /\ \A order \in RangeOrders(DOMAIN entries) :
                Build(order, entries, profiles).registry = registry[1]

\* C9 witness: both catalogs were built from two entries.
C9_Witness ==
    /\ OfficialCurrent
    /\ NativeCurrent
    /\ Cardinality(DOMAIN entries) = 2
    /\ Len(ServerNames(official[1])) = 2
    /\ Len(processed) = 2

\* The native record of entry n.
NativeRecord(n) ==
    IF IsImage(entries[n]) THEN registry[1].Servers[n]
    ELSE registry[1].RemoteServers[n]

\* The standards record of entry n.
OfficialRecord(n) ==
    LET srv == official[1].Servers[1]
    IN  srv[CHOOSE i \in 1..Len(srv) : srv[i].Name = n]

\* C10: an entry with no tier and no status has tier "Community" and status
\* "Active" in its native record, and tier "Community" in the vendor
\* extension and the translated status in its standards record.
C10_DefaultsInBothCatalogs ==
    \A n \in DOMAIN entries :
        (/\ IsImage(entries[n]) \/ IsRemote(entries[n])
         /\ GetTier(entries[n]) = ""
         /\ GetStatus(entries[n]) = "") =>
            /\ NativeCurrent =>
                /\ NativeRecord(n).Tier = TierCommunity
                /\ NativeRecord(n).Status = StatusActive
            /\ OfficialCurrent =>
                /\ OfficialRecord(n).Status = ModelStatusActive
                /\ \A k \in 1..Len(OfficialRecord(n).PublisherProvided) :
                    LET payload == OfficialRecord(n).PublisherProvided[k].payload
                    IN  /\ "tier" \in DOMAIN payload
                        /\ payload["tier"] = TierCommunity

(***************************************************************************)
(* Claims about repeated and interleaved builds (checked under Spec).      *)
(***************************************************************************)
\* C11: when Builder.Build has run at least twice on the same Loader, the
\* catalog of the last Build is equal, in every field the model keeps (all
\* but the last-updated timestamp), to the catalog the Build before it
\* returned.
C11_BuildTwiceEqual ==
    previous # Nil => previous = Serialised(registry, profiles)

\* C11 witness: Build ran twice over an image entry whose permission profile
\* was loaded with its read list absent.
C11_Witness ==
    /\ previous # Nil
    /\ \E n \in DOMAIN registry[1].Servers :
        /\ registry[1].Servers[n].Permissions # Nil
        /\ loadedProfiles[registry[1].Servers[n].Permissions[1]].Read = Nil
        /\ previous[1].Servers[n].Permissions[1].Read = Ptr(<<>>)

(***************************************************************************)
(* Claims about the command builder (checked under SpecRun).               *)
(***************************************************************************)
\* The values of the '-e' pairs of an argument list, in order.
RECURSIVE EnvPairsFrom(_, _)
EnvPairsFrom(args, i) ==
    IF i >= Len(args) THEN <<>>
    ELSE IF args[i] = FlagEnv
    THEN << args[i + 1] >> \o EnvPairsFrom(args, i + 2)
    ELSE EnvPairsFrom(args, i + 1)

EnvPairs(args) == EnvPairsFrom(args, 1)

\* The value the precedence rule gives one declaration: <<>> for none.
InjectedValue(envVar) ==
    IF envVar.Default # "" THEN Chars(envVar.Default)
    ELSE IF envVar.Required \/ envVar.Secret THEN Placeholder
    ELSE <<>>

\* The declarations of a list that get a value, in declared order.
Injected(envVars) ==
    SelectSeq(envVars, LAMBDA envVar : InjectedValue(envVar) # <<>>)

\* C12: for an image entry, the '-e' pairs of the command are, in declared
\* order, one NAME=value per declared variable that the precedence rule gives
\* a value: the authored default when it is not empty (never the placeholder,
\* whatever the required and secret marks), else the placeholder when the
\* variable is required, else the placeholder when it is secret; a variable
\* with none of these gets no pair.
C12_EnvVarPrecedence ==
    (runArgs # Nil /\ runSpec[1].spec.ImageMetadata # Nil) =>
        LET envVars == IF runSpec[1].spec.ImageMetadata[1].EnvVars = Nil
                       THEN <<>>
                       ELSE runSpec[1].spec.ImageMetadata[1].EnvVars[1]
            want == Injected(envVars)
            pairs == EnvPairs(runArgs[1])
        IN  /\ Len(pairs) = Len(want)
            /\ \A k \in 1..Len(want) :
                 pairs[k] = Chars(want[k].Name) \o << "=" >>
                               \o InjectedValue(want[k])

\* C12 witness: a command was built for a variable with a default that is
\* also required and secret, and for one that is only secret.
C12_Witness ==
    /\ runArgs # Nil
    /\ runSpec[1].spec.ImageMetadata # Nil
    /\ runSpec[1].spec.ImageMetadata[1].EnvVars =
         Ptr(<< [Name |-> "A", Default |-> "v", Required |-> TRUE,
                 Secret |-> TRUE],
                [Name |-> "B", Default |-> "", Required |-> FALSE,
                 Secret |-> TRUE] >>)
    /\ EnvPairs(runArgs[1]) =
         << << "A", "=", "v" >>, << "B", "=" >> \o Placeholder >>

\* The variable name of a '-e' pair: the text before its first '='.
PairName(pair) == SplitFirst(pair, "=")

\* C13: in the command, no two '-e' pairs name the same variable.
C13_OneValuePerName ==
    runArgs # Nil =>
        \A i, j \in 1..Len(EnvPairs(runArgs[1])) :
            PairName(EnvPairs(runArgs[1])[i]) = PairName(EnvPairs(runArgs[1])[j])
                => i = j

\* C14: the command starts with 'run', '--name' and the temporary name.
C14_NameFlagFirst ==
    runArgs # Nil =>
        /\ Len(runArgs[1]) >= 3
        /\ runArgs[1][1] = ArgRun
        /\ runArgs[1][2] = FlagName
        /\ runArgs[1][3] = runSpec[1].tempName

(***************************************************************************)
(* Claims about the registry/identifier split (checked under SpecParse).   *)
(***************************************************************************)
\* The image path of a reference that parsed: the text before its '@', else
\* before its first ':', else all of it.
ImagePath(img) ==
    IF Contains(img, "@") THEN SubSeq(img, 1, Index(img, "@") - 1)
    ELSE IF Contains(img, ":") THEN SubSeq(img, 1, Index(img, ":") - 1)
    ELSE img

\* C15: of a reference that parses, the image path is split as follows: with
\* no '/', the registry base is https://docker.io and the identifier the
\* whole path; with a '.' in the text before the first '/', the registry
\* base is https:// followed by that text and the identifier is what follows
\* the first '/'; otherwise the registry base is https://docker.io and the
\* identifier the whole path.  docker.io/mcp/git:latest parses to
\* https://docker.io, mcp/git, latest.
C15_RegistrySplit ==
    (parsed # Nil /\ parsed[1].err = "") =>
        LET path == ImagePath(image)
            slash == Index(path, "/")
            first == SubSeq(path, 1, slash - 1)
        IN  /\ slash = 0 =>
                /\ parsed[1].registryBaseURL = DockerHub
                /\ parsed[1].identifier = path
            /\ (slash > 0 /\ Contains(first, ".")) =>
                /\ parsed[1].registryBaseURL = HTTPS \o first
                /\ parsed[1].identifier = SubSeq(path, slash + 1, Len(path))
            /\ (slash > 0 /\ ~Contains(first, ".")) =>
                /\ parsed[1].registryBaseURL = DockerHub
                /\ parsed[1].identifier = path
            /\ image = ExampleRef =>
                /\ parsed[1].registryBaseURL = DockerHub
                /\ parsed[1].identifier = << "m", "c", "p", "/", "g", "i", "t" >>
                /\ parsed[1].version = Latest

\* C15 witness: docker.io/mcp/git:latest was parsed.
C15_Witness ==
    /\ image = ExampleRef
    /\ parsed # Nil
    /\ parsed[1].err = ""
    /\ parsed[1].identifier = << "m", "c", "p", "/", "g", "i", "t" >>

(***************************************************************************)
(* Claims about the records of the two catalogs (checked under Spec).      *)
(***************************************************************************)
\* C16: the standards record of every remote entry has exactly one remote
\* endpoint descriptor, with the entry's transport and URL and one header
\* input per declared header, in declared order, each with the header's
\* name, description, required mark and secret mark, and with no default and
\* no choices.
C16_OneRemoteDescriptor ==
    OfficialCurrent =>
        \A n \in DOMAIN entries :
            IsRemote(entries[n]) =>
                LET md == entries[n].RemoteServerMetadata[1]
                    remotes == OfficialRecord(n).Remotes
                IN  /\ SliceLen(remotes) = 1
                    /\ remotes[1][1].TransportType = md.Transport
                    /\ remotes[1][1].URL = md.URL
                    /\ SliceLen(remotes[1][1].Headers) = SliceLen(md.Headers)
                    /\ \A i \in 1..SliceLen(md.Headers) :
                        LET input == remotes[1][1].Headers[1][i]
                            header == md.Headers[1][i]
                        IN  /\ input.Name = header.Name
                            /\ input.Description = header.Description
                            /\ input.IsRequired = header.Required
                            /\ input.IsSecret = header.Secret
                            /\ input.Default = ""
                            /\ input.Choices = Nil

\* C16 witness: the standards catalog was built from a remote entry that
\* declares a single header, required, and its record has one header input
\* with the required mark.
C16_Witness ==
    /\ OfficialCurrent
    /\ \E n \in DOMAIN entries :
        /\ IsRemote(entries[n])
        /\ entries[n].RemoteServerMetadata[1].Headers = Ptr(<< HeaderA >>)
        /\ SliceLen(OfficialRecord(n).Remotes) = 1
        /\ SliceLen(OfficialRecord(n).Remotes[1][1].Headers) = 1
        /\ OfficialRecord(n).Remotes[1][1].Headers[1][1].IsRequired

\* C17: Builder.Build returns no error, and every loaded entry is under its
\* key in exactly one of the two native collections: an image entry in
\* Servers only, a remote entry in RemoteServers only; no key is in both and
\* the two sizes add up to the number of loaded entries.
C17_OneCollectionPerEntry ==
    NativeCurrent =>
        /\ call = "Builder.Build" => err = ""
        /\ \A n \in DOMAIN entries :
            /\ IsImage(entries[n]) =>
                /\ n \in DOMAIN registry[1].Servers
                /\ n \notin DOMAIN registry[1].RemoteServers
            /\ (IsRemote(entries[n]) /\ ~IsImage(entries[n])) =>
                /\ n \in DOMAIN registry[1].RemoteServers
                /\ n \notin DOMAIN registry[1].Servers
        /\ DOMAIN registry[1].Servers \cap DOMAIN registry[1].RemoteServers = {}
        /\ Cardinality(DOMAIN registry[1].Servers)
             + Cardinality(DOMAIN registry[1].RemoteServers)
           = Cardinality(DOMAIN entries)

\* C17 witness: Build ran over one image entry and one remote entry.
C17_Witness ==
    /\ call = "Builder.Build"
    /\ NativeCurrent
    /\ Cardinality(DOMAIN entries) = 2
    /\ Cardinality(DOMAIN registry[1].Servers) = 1
    /\ Cardinality(DOMAIN registry[1].RemoteServers) = 1

\* The standards builder has just built: no other operation ran since.
OfficialJustBuilt ==
    /\ official # Nil
    /\ call \in { "OfficialRegistry.ValidateAgainstSchema",
                  "OfficialRegistry.WriteJSON" }
    /\ "build" \in Elems(steps)

\* C18: the standards catalog just built serialises to what it would with
\* the permission profiles as loading left them, that is, to what it is when
\* Builder.Build has not run on the Loader beforehand.
C18_StandardsIndependentOfNative ==
    OfficialJustBuilt =>
        MarshalOfficial(official[1], profiles)
            = MarshalOfficial(official[1], loadedProfiles)

(***************************************************************************)
(* Claims about the loader (checked under SpecLoad).                       *)
(***************************************************************************)
\* The walk stops at a directory: it reports an error for it, or the
\* directory's document fails to load.
Failed(dir) ==
    WalkFails(dir) \/ LoadEntryWithName(dir.doc, dir.name, <<>>).err # ""

\* LoadAll returned the error of the registry root itself.
RootFailed == loadErr # Nil /\ loadErr[1].path = <<>>

\* The candidate directories the last LoadAll got through: none when the root
\* failed, else those before the first at which the walk stops.
Walked ==
    IF RootFailed THEN {}
    ELSE { i \in 1..Len(listing) : \A j \in 1..i : ~Failed(listing[j]) }

\* The entry set was last filled by LoadAll.
LastFillIsLoadAll == fills # <<>> /\ fills[Len(fills)] = "LoadAll"

\* The name a directory's entry resolves to.
Resolved(dir) ==
    IF dir.doc.name # <<>> /\ dir.doc.name # dir.name THEN dir.doc.name
    ELSE dir.name

\* The last walked directory that resolves to the same name as directory i.
IsLastFor(i) ==
    \A j \in Walked : Resolved(listing[j]) = Resolved(listing[i]) => j <= i

\* An entry without its pointer to a permission profile.
SansProfile(entry) ==
    IF entry.ImageMetadata = Nil THEN entry
    ELSE [entry EXCEPT !.ImageMetadata = Ptr([@[1] EXCEPT !.Permissions = Nil])]

\* What the decoder makes of a directory's document.
DecodedFrom(dir) == SansProfile(UnmarshalYAML(dir.doc, <<>>).entry)

\* C19: after LoadAll, the entry of every directory walked is stored under
\* the name its document declares when that name is not empty and differs
\* from the directory name, with the name as declared, and under the
\* directory name otherwise, with the directory name written onto it; it is
\* otherwise the entry as decoded.
C19_NameResolution ==
    LastFillIsLoadAll => \A i \in Walked :
        LET dir == listing[i]
            declared == dir.doc.name # <<>> /\ dir.doc.name # dir.name
        IN  IsLastFor(i) =>
                /\ declared =>
                    /\ dir.doc.name \in DOMAIN entries
                    /\ GetName(entries[dir.doc.name]) = dir.doc.name
                    /\ SansProfile(entries[dir.doc.name]) = DecodedFrom(dir)
                /\ ~declared =>
                    /\ dir.name \in DOMAIN entries
                    /\ GetName(entries[dir.name]) = dir.name
                    /\ SansProfile(entries[dir.name])
                         = SetName(DecodedFrom(dir), dir.name)

\* C19 witness: LoadAll stored one entry under the name it declares and one
\* under its directory name.
C19_Witness ==
    /\ fills = << "LoadAll" >>
    /\ loadErr = Nil
    /\ Len(listing) = 2
    /\ listing[1].doc.name = <<>>
    /\ listing[2].doc.name # <<>>
    /\ listing[2].doc.name # listing[2].name
    /\ DOMAIN entries = { listing[1].name, listing[2].doc.name }
    /\ listing[1].name # listing[2].doc.name

\* One LoadAll has filled the entry set of a new Loader, and nothing else
\* has.
LoadAllDone == fills = << "LoadAll" >>

\* C20: a name collision raises no error (LoadAll fails only on a document
\* that fails to load), the mapping holds exactly one entry per distinct
\* resolved name, and under a name that several directories resolve to it
\* holds the entry of the one walked last.
C20_LaterEntryWins ==
    LoadAllDone =>
        /\ loadErr # Nil =>
            (RootFailed \/ \E i \in 1..Len(listing) : Failed(listing[i]))
        /\ DOMAIN entries = { Resolved(listing[i]) : i \in Walked }
        /\ \A i, j \in Walked :
            (i < j /\ Resolved(listing[i]) = Resolved(listing[j]) /\ IsLastFor(j))
                => SansProfile(entries[Resolved(listing[j])])
                     = SetName(DecodedFrom(listing[j]), Resolved(listing[j]))

\* C20 witness: two directories resolved to the same name, LoadAll returned
\* no error, and the one entry kept is of the second, which differs from the
\* first.
C20_Witness ==
    /\ LoadAllDone
    /\ loadErr = Nil
    /\ Len(listing) = 2
    /\ Resolved(listing[1]) = Resolved(listing[2])
    /\ Cardinality(DOMAIN entries) = 1
    /\ IsRemote(entries[Resolved(listing[2])])
    /\ listing[1].doc.hasImage

\* The directories at which a walk stops, and those of them whose document
\* is read and fails to decode or to validate.
Bad == { i \in 1..Len(listing) : Failed(listing[i]) }

BadDocument(i) == i \in Bad /\ listing[i].doc.io = ""

\* C21: when the walk reaches a document that fails to decode or to
\* validate, LoadAll returns an error that names it, and the entry mapping
\* holds entries of the directories before it only: neither that document's
\* entry nor one of a later directory.  The same holds of a directory the
\* walk fails on and of a document that cannot be opened or read; when the
\* walk meets none of these and the root can be walked, LoadAll returns no
\* error.
C21_StopsAtFirstFailure ==
    (LoadAllDone /\ ~RootFailed) =>
        /\ Bad = {} => loadErr = Nil
        /\ Bad # {} =>
            LET f == CHOOSE i \in Bad : \A j \in Bad : i <= j
            IN  /\ loadErr # Nil
                /\ loadErr[1].path = listing[f].name
                /\ BadDocument(f) =>
                        loadErr[1].msg \in { ErrParseYAML, ErrValidation }
                /\ \A k \in DOMAIN entries :
                    \E i \in 1..(f - 1) :
                        /\ Resolved(listing[i]) = k
                        /\ SansProfile(entries[k])
                             = SetName(DecodedFrom(listing[i]), k)
                /\ Cardinality(DOMAIN entries) <= f - 1

\* C21 witness: the first of two documents failed to load; LoadAll returned
\* the error for it and the second, a good one, was not loaded.
C21_Witness ==
    /\ LoadAllDone
    /\ Len(listing) = 2
    /\ BadDocument(1)
    /\ ~Failed(listing[2])
    /\ loadErr # Nil
    /\ loadErr[1].path = listing[1].name
    /\ DOMAIN entries = {}

(***************************************************************************)
(* More claims about the records of the two catalogs (checked under Spec). *)
(***************************************************************************)
\* C22: the standards catalog has a record for every entry, and the record
\* of every image entry has exactly one package descriptor, of the OCI
\* registry type; when the entry's image does not parse, the descriptor has
\* an empty registry base, the raw image string as identifier and an empty
\* version, and otherwise the three values the parse returned.
C22_PackageFallback ==
    OfficialCurrent =>
        /\ Elems(ServerNames(official[1])) = DOMAIN entries
        /\ \A n \in DOMAIN entries :
            IsImage(entries[n]) =>
                LET img == entries[n].ImageMetadata[1].Image
                    ref == parseImageReference(img)
                    packages == OfficialRecord(n).Packages
                IN  /\ SliceLen(packages) = 1
                    /\ packages[1][1].RegistryType = RegistryTypeOCI
                    /\ ref.err # "" =>
                        /\ packages[1][1].RegistryBaseURL = <<>>
                        /\ packages[1][1].Identifier = img
                        /\ packages[1][1].Version = <<>>
                    /\ ref.err = "" =>
                        /\ packages[1][1].RegistryBaseURL = ref.registryBaseURL
                        /\ packages[1][1].Identifier = ref.identifier
                        /\ packages[1][1].Version = ref.version

\* C22 witness: the standards catalog was built from an entry whose image
\* does not parse and one whose image does; both have their descriptor.
C22_Witness ==
    /\ OfficialCurrent
    /\ \E n, m \in DOMAIN entries :
        /\ IsImage(entries[n]) /\ IsImage(entries[m])
        /\ parseImageReference(entries[n].ImageMetadata[1].Image).err = PortError
        /\ parseImageReference(entries[m].ImageMetadata[1].Image).err = ""
        /\ OfficialRecord(n).Packages[1][1].Identifier = ImagePort
        /\ OfficialRecord(n).Packages[1][1].Version = <<>>
        /\ OfficialRecord(m).Packages[1][1].Version = << "a" >>

\* The lists every record of the native catalog has whatever was declared:
\* tools, tags and environment variables, the static args of an image
\* record, the headers of a remote record, and the read and write lists of
\* an image record's permission profile.  None of them is nil.
C23_RecordLists ==
    /\ \A n \in DOMAIN registry[1].Servers :
        LET rec == registry[1].Servers[n]
        IN  /\ rec.Tools # Nil /\ rec.Tags # Nil /\ rec.EnvVars # Nil
            /\ rec.Args # Nil
            /\ rec.Permissions # Nil =>
                /\ profiles[rec.Permissions[1]].Read # Nil
                /\ profiles[rec.Permissions[1]].Write # Nil
    /\ \A n \in DOMAIN registry[1].RemoteServers :
        LET rec == registry[1].RemoteServers[n]
        IN  /\ rec.Tools # Nil /\ rec.Tags # Nil /\ rec.EnvVars # Nil
            /\ rec.Headers # Nil

\* The profile has an outbound network block.
HasOutbound(profile) ==
    profile.Network # Nil /\ profile.Network[1].Outbound # Nil

\* The profile has an allow-host and an allow-port list, and neither is nil.
HasAllowLists(profile) ==
    /\ HasOutbound(profile)
    /\ profile.Network[1].Outbound[1].AllowHost # Nil
    /\ profile.Network[1].Outbound[1].AllowPort # Nil

\* C23 as stated: in the native catalog no optional list is nil, and
\* whenever an image record has a permission profile, the profile has
\* non-nil allow-host and allow-port lists.  The code writes the allow lists
\* only inside an outbound block that the document declared, so a profile
\* without one refutes this.
C23_AllowListsOfEveryProfile ==
    registry # Nil =>
        /\ C23_RecordLists
        /\ \A n \in DOMAIN registry[1].Servers :
            registry[1].Servers[n].Permissions # Nil =>
                HasAllowLists(profiles[registry[1].Servers[n].Permissions[1]])

\* C23, amended: in the native catalog no optional list is nil: tools, tags
\* and environment variables of every record, the static args of an image
\* record, the headers of a remote record and, where an image record has a
\* permission profile, the profile's read and write lists and, where the
\* profile has an outbound network block, its allow-host and allow-port
\* lists.
C23_NoNilLists ==
    registry # Nil =>
        /\ C23_RecordLists
        /\ \A n \in DOMAIN registry[1].Servers :
            LET rec == registry[1].Servers[n]
            IN  (rec.Permissions # Nil
                 /\ HasOutbound(profiles[rec.Permissions[1]])) =>
                    HasAllowLists(profiles[rec.Permissions[1]])

\* C23 witness: the native catalog was built from a remote entry that
\* declares no header and no tag and an image entry whose profile was
\* loaded with no read list and with an outbound block that has neither
\* allow list; all of these lists are now empty.
C23_Witness ==
    /\ NativeCurrent
    /\ \E n \in DOMAIN registry[1].RemoteServers :
        /\ entries[n].RemoteServerMetadata[1].Headers = Nil
        /\ entries[n].RemoteServerMetadata[1].Tags = Nil
        /\ registry[1].RemoteServers[n].Headers = Ptr(<<>>)
        /\ registry[1].RemoteServers[n].Tags = Ptr(<<>>)
    /\ \E n \in DOMAIN registry[1].Servers :
        LET rec == registry[1].Servers[n]
        IN  /\ rec.Permissions # Nil
            /\ loadedProfiles[rec.Permissions[1]].Read = Nil
            /\ profiles[rec.Permissions[1]].Read = Ptr(<<>>)
            /\ HasOutbound(loadedProfiles[rec.Permissions[1]])
            /\ loadedProfiles[rec.Permissions[1]].Network[1].Outbound[1]
                   = OutboundBare
            /\ profiles[rec.Permissions[1]].Network[1].Outbound[1].AllowHost
                   = Ptr(<<>>)
            /\ profiles[rec.Permissions[1]].Network[1].Outbound[1].AllowPort
                   = Ptr(<<>>)

(***************************************************************************)
(* Claims about the tail of the command (checked under SpecRun).           *)
(***************************************************************************)
\* The static arguments an entry declares: none for a remote entry.
DeclaredArgs(spec) ==
    IF spec.ImageMetadata # Nil /\ spec.ImageMetadata[1].Args # Nil
    THEN spec.ImageMetadata[1].Args[1]
    ELSE <<>>

\* The texts of a list of entry strings.
CharsOfAll(strs) == [i \in 1..Len(strs) |-> Chars(strs[i])]

\* The tail the command is to have after its flags.
ExpectedTail(spec, img) ==
    IF DeclaredArgs(spec) = <<>> THEN << img >>
    ELSE << img, ArgSeparator >>
         \o CharsOfAll(SelectSeq(DeclaredArgs(spec), LAMBDA a : a # ""))

\* C24: the command ends with the image when the entry declares no static
\* argument, and otherwise with the image, the separator '--' and the
\* declared arguments that are not empty, in declared order; the element
\* before this tail is never a separator, so nothing else follows the image.
C24_ImageThenArgs ==
    runArgs # Nil =>
        LET args == runArgs[1]
            tail == ExpectedTail(runSpec[1].spec, runSpec[1].image)
        IN  /\ Len(args) > Len(tail)
            /\ SubSeq(args, Len(args) - Len(tail) + 1, Len(args)) = tail
            /\ \A i \in 1..(Len(args) - Len(tail)) : args[i] # ArgSeparator

\* C24 witness: a command was built for an image entry whose static
\* arguments are y, the empty string and x; it ends with the image, '--', y
\* and x.
C24_Witness ==
    /\ runArgs # Nil
    /\ DeclaredArgs(runSpec[1].spec) = << "y", "", "x" >>
    /\ runSpec[1].image = ImageA
    /\ Len(runArgs[1]) >= 4
    /\ SubSeq(runArgs[1], Len(runArgs[1]) - 3, Len(runArgs[1]))
         = << ImageA, ArgSeparator, << "y" >>, << "x" >> >>

\* Whether an entry is an image entry whose permission profile has an
\* outbound network block.
DeclaresOutbound(spec, heap) ==
    /\ spec.ImageMetadata # Nil
    /\ spec.ImageMetadata[1].Permissions # Nil
    /\ heap[spec.ImageMetadata[1].Permissions[1]].Network # Nil
    /\ heap[spec.ImageMetadata[1].Permissions[1]].Network[1].Outbound # Nil

\* C26: the command holds '--permission-profile' exactly when the entry is
\* an image entry that declares outbound network permissions, and then once,
\* followed by 'network' and the image, with every '-e' before it.
C26_NetworkProfileFlag ==
    runArgs # Nil =>
        LET args == runArgs[1]
            at == { i \in 1..Len(args) : args[i] = FlagPermissionProfile }
        IN  IF DeclaresOutbound(runSpec[1].spec, profiles)
            THEN /\ Cardinality(at) = 1
                 /\ \A i \in at :
                     /\ i + 2 <= Len(args)
                     /\ args[i + 1] = ArgNetwork
                     /\ args[i + 2] = runSpec[1].image
                     /\ \A j \in 1..Len(args) : args[j] = FlagEnv => j < i
            ELSE at = {}

(***************************************************************************)
(* Claims about the vendor extension block (checked under Spec).           *)
(***************************************************************************)
\* C25: in the standards catalog, the extension block of the record of every
\* image or remote entry holds exactly one payload, under the entry's image
\* reference for an image entry and under its URL for a remote entry; the
\* payload has the key 'transport', has 'tools' exactly when the entry's tool
\* list is not empty and has 'tier' exactly when the entry's tier is not
\* empty.
C25_OneExtensionPayload ==
    OfficialCurrent =>
        \A n \in DOMAIN entries :
            (IsImage(entries[n]) \/ IsRemote(entries[n])) =>
                LET ext == OfficialRecord(n).PublisherProvided
                IN  /\ Len(ext) = 1
                    /\ IF IsImage(entries[n])
                       THEN /\ ext[1].image = entries[n].ImageMetadata[1].Image
                            /\ ext[1].url = ""
                       ELSE /\ ext[1].url = entries[n].RemoteServerMetadata[1].URL
                            /\ ext[1].image = <<>>
                    /\ "transport" \in DOMAIN ext[1].payload
                    /\ ext[1].payload["transport"] = GetTransport(entries[n])
                    /\ "tools" \in DOMAIN ext[1].payload
                         <=> SliceLen(GetTools(entries[n])) > 0
                    /\ "tier" \in DOMAIN ext[1].payload
                         <=> GetTier(entries[n]) # ""

\* C25 witness: the standards catalog was built from an image entry with a
\* tool and a tier, whose payload under its image has both, and a remote
\* entry with neither, whose payload under its URL has only the transport.
C25_Witness ==
    /\ OfficialCurrent
    /\ \E n, m \in DOMAIN entries :
        /\ IsImage(entries[n])
        /\ GetTier(entries[n]) = TierOfficial
        /\ OfficialRecord(n).PublisherProvided[1].image = ImageA
        /\ OfficialRecord(n).PublisherProvided[1].payload["tier"] = TierOfficial
        /\ "tools" \in DOMAIN OfficialRecord(n).PublisherProvided[1].payload
        /\ ~IsImage(entries[m]) /\ IsRemote(entries[m])
        /\ GetTier(entries[m]) = ""
        /\ GetTools(entries[m]) = Nil
        /\ OfficialRecord(m).PublisherProvided[1].url = UrlA
        /\ DOMAIN OfficialRecord(m).PublisherProvided[1].payload = { "transport" }

(***************************************************************************)
(* Claims about the entry mapping's keys (checked under Spec).             *)
(***************************************************************************)
\* C27: after a LoadAll that returned no error, every key of the entry
\* mapping is the name of the entry it maps to, and GetSortedEntries returns,
\* for every order in which the map may yield its keys, the entries in
\* ascending order of key, which is the order in which the native builder
\* went through them and the order of the standards catalog's records.
C27_KeysAreNames ==
    (LastFillIsLoadAll /\ loadErr = Nil) =>
        /\ \A k \in DOMAIN entries : GetName(entries[k]) = k
        /\ \A order \in RangeOrders(DOMAIN entries) :
            LET sorted == GetSortedEntries(order, entries)
                keys == SortStrings(order)
            IN  /\ Len(sorted) = Len(keys)
                /\ \A i \in 1..Len(keys) : sorted[i] = entries[keys[i]]
                /\ NativeCurrent => processed = keys
                /\ OfficialCurrent => ServerNames(official[1]) = keys

\* C27 witness: LoadAll stored two entries without error, one of them under a
\* name its document declares and its directory does not have, both catalogs
\* were built, and the map may yield the keys in descending order.
C27_Witness ==
    /\ LastFillIsLoadAll
    /\ loadErr = Nil
    /\ Cardinality(DOMAIN entries) = 2
    /\ \E i \in 1..Len(listing) :
        /\ listing[i].doc.name # <<>>
        /\ listing[i].doc.name # listing[i].name
        /\ listing[i].doc.name \in DOMAIN entries
    /\ NativeCurrent
    /\ OfficialCurrent
    /\ \E order \in RangeOrders(DOMAIN entries) :
        /\ StringLess(order[2], order[1])
        /\ GetName(GetSortedEntries(order, entries)[1]) = order[2]

====
